---- MODULE Spec2Model ----
(***************************************************************************)
(* Model of the trend-adjusted Bayesian risk scoring engine of the Dalio    *)
(* dashboard: ProbabilityCalculator and TrendAnalyzer                       *)
(* (src/src/js/probabilityCalculator.js), the configuration tables          *)
(* (config.js, carried at the end of src/fred-proxy-server.js) and the      *)
(* helpers validateNumber and clamp (utils.js, src/unnamed/part_003).       *)
(*                                                                         *)
(* Numbers.  Raw indicator values and rule thresholds are integers in       *)
(* tenths (4.33% is 43, the threshold 0.5 is 5).  Factors, multipliers,     *)
(* discounts and probabilities are positive rationals whose numerators and  *)
(* denominators only have the prime factors 2, 3, 5, 7, 13 and 17; such a   *)
(* number is kept as the tuple of its six prime exponents, so that the      *)
(* products the code forms are exact and never overflow, and is compared    *)
(* through arbitrary-precision naturals.  This is the exact-arithmetic      *)
(* reading of the JavaScript doubles: rounding in the last binary digit is  *)
(* not modelled.                                                            *)
(***************************************************************************)
EXTENDS Integers, Sequences, FiniteSets, TLC

(***************************************************************************)
(* Exact positive rationals (the doubles of the code).                      *)
(***************************************************************************)
Primes == <<2, 3, 5, 7, 13, 17>>

NPrimes == Len(Primes)

One == [i \in 1..NPrimes |-> 0]

\* acc * f.factor, baseFactor * trendMultiplier, combinedFactor *= discount
Mul(a, b) == [i \in 1..NPrimes |-> a[i] + b[i]]

Inv(a) == [i \in 1..NPrimes |-> 0 - a[i]]

RECURSIVE FactorOut(_, _)
\* the exponent tuple of the natural n >= 1, dividing out Primes[i..]
FactorOut(n, i) ==
    IF n = 1 \/ i > NPrimes THEN One
    ELSE IF n % Primes[i] = 0
         THEN LET r == FactorOut(n \div Primes[i], i)
              IN  [r EXCEPT ![i] = @ + 1]
         ELSE FactorOut(n, i + 1)

\* the literal n/d of the source, e.g. 1.8 is Rat(18, 10)
Rat(n, d) == Mul(FactorOut(n, 1), Inv(FactorOut(d, 1)))

Base == 10000

RECURSIVE BigMulSmall(_, _, _, _)
\* limbs b (little-endian, base Base) times the small natural k, from limb i
BigMulSmall(b, k, i, carry) ==
    IF i > Len(b) THEN (IF carry = 0 THEN <<>> ELSE <<carry>>)
    ELSE LET t == b[i] * k + carry
         IN  <<t % Base>> \o BigMulSmall(b, k, i + 1, t \div Base)

RECURSIVE BigPow(_, _, _)
\* b * p^e
BigPow(b, p, e) == IF e <= 0 THEN b ELSE BigPow(BigMulSmall(b, p, 1, 0), p, e - 1)

RECURSIVE BigProd(_, _, _)
\* the product of Primes[i]^(sign * a[i]) over the exponents of that sign
BigProd(a, sign, i) ==
    IF i > NPrimes THEN <<1>>
    ELSE BigPow(BigProd(a, sign, i + 1), Primes[i], sign * a[i])

RECURSIVE BigGeqFrom(_, _, _)
BigGeqFrom(x, y, i) ==
    IF i = 0 THEN TRUE
    ELSE IF x[i] # y[i] THEN x[i] > y[i]
    ELSE BigGeqFrom(x, y, i - 1)

BigGeq(x, y) ==
    IF Len(x) # Len(y) THEN Len(x) > Len(y) ELSE BigGeqFrom(x, y, Len(x))

\* a >= b on doubles
Geq(a, b) ==
    LET q == Mul(a, Inv(b))
    IN  IF \A i \in 1..NPrimes : q[i] >= 0 THEN TRUE
        ELSE IF \A i \in 1..NPrimes : q[i] <= 0 THEN FALSE
        ELSE BigGeq(BigProd(q, 1, 1), BigProd(q, -1, 1))

MathMin(a, b) == IF Geq(a, b) THEN b ELSE a

MathMax(a, b) == IF Geq(a, b) THEN a ELSE b

\* clamp without its upper bound
clampUnbounded(value, max) == value

\* utils.js clamp(value, min, max) with min = 0: every value here is > 0, so
\* Math.max(value, 0) is value
clamp(value, max) == MathMin(value, max)


(***************************************************************************)
(* Configuration (config.js).                                              *)
(***************************************************************************)
Events == <<"recession", "depression", "reserve", "default", "devaluation">>

EventSet == {Events[i] : i \in 1..Len(Events)}

BASE_PROBABILITIES ==
    [recession |-> Rat(15, 100), depression |-> Rat(3, 100), reserve |-> Rat(5, 100),
     default |-> Rat(1, 100), devaluation |-> Rat(20, 100)]

\* value in tenths, factor exact
ECONOMIC_THRESHOLDS ==
    [recession |->
        [deficitGDP |-> [value |-> 50, factor |-> Rat(18, 10), reason |-> "Deficit > 5% GDP"],
         creditSpreads |-> [value |-> 40, factor |-> Rat(20, 10), reason |-> "Credit spreads > 400bps"],
         yieldCurve |-> [value |-> 0, factor |-> Rat(17, 10), reason |-> "Yield curve inverted"]],
     depression |->
        [fedFunds |-> [value |-> 5, factor |-> Rat(30, 10), reason |-> "Fed Funds < 0.5%"],
         debtGDP |-> [value |-> 1500, factor |-> Rat(20, 10), reason |-> "Debt/GDP > 150%"],
         mbToM2 |-> [value |-> 3, factor |-> Rat(15, 10), reason |-> "Extreme QE conditions"]],
     reserve |->
        [dxy |-> [value |-> 900, factor |-> Rat(15, 10), reason |-> "Dollar weakness"]],
     default |->
        [deficitGDP |-> [value |-> 70, factor |-> Rat(30, 10), reason |-> "Deficit > 7% GDP"],
         interestPayments |-> [value |-> 40, factor |-> Rat(25, 10), reason |-> "Interest payments > 4% GDP"],
         rateSpread |-> [value |-> 20, factor |-> Rat(15, 10), reason |-> "Rising long-term rates"]],
     devaluation |->
        [dxy |-> [value |-> 1000, factor |-> Rat(15, 10), reason |-> "DXY < 100"],
         deficitGDP |-> [value |-> 70, factor |-> Rat(18, 10), reason |-> "High deficit monetization risk"]]]

RISK_THRESHOLDS ==
    [recession |-> [critical |-> Rat(60, 100), high |-> Rat(42, 100), moderate |-> Rat(24, 100)],
     depression |-> [critical |-> Rat(20, 100), high |-> Rat(14, 100), moderate |-> Rat(8, 100)],
     reserve |-> [critical |-> Rat(30, 100), high |-> Rat(21, 100), moderate |-> Rat(12, 100)],
     default |-> [critical |-> Rat(10, 100), high |-> Rat(7, 100), moderate |-> Rat(4, 100)],
     devaluation |-> [critical |-> Rat(50, 100), high |-> Rat(35, 100), moderate |-> Rat(20, 100)]]

\* the keys of each event's rules in the order ECONOMIC_THRESHOLDS declares them
RuleOrder ==
    [recession |-> <<"deficitGDP", "creditSpreads", "yieldCurve">>,
     depression |-> <<"fedFunds", "debtGDP", "mbToM2">>,
     reserve |-> <<"dxy">>,
     default |-> <<"deficitGDP", "interestPayments", "rateSpread">>,
     devaluation |-> <<"dxy", "deficitGDP">>]

\* CORRELATION_DISCOUNT[2] and CORRELATION_DISCOUNT[3]
CORRELATION_DISCOUNT == <<One, Rat(7, 10), Rat(5, 10)>>

(***************************************************************************)
(* Indicator snapshots.  A snapshot is null (isNull) or maps indicator ids  *)
(* to entries; an entry is a finite number (kind "num", raw in tenths), a   *)
(* value parseFloat cannot read or that is not finite (kind "bad"), or a    *)
(* null entry (kind "null").  Among the values that are no finite number,   *)
(* NaN ("nan"), an infinity ("inf") and a string that starts with a number  *)
(* and goes on with other characters ("text", raw its leading number) are   *)
(* told apart where it matters.                                             *)
(***************************************************************************)
Num(v) == [kind |-> "num", raw |-> v]

BadValue == [kind |-> "bad", raw |-> 0]

NullEntry == [kind |-> "null", raw |-> 0]

NaNValue == [kind |-> "nan", raw |-> 0]

InfValue == [kind |-> "inf", raw |-> 1]

\* a string such as "8%" or "8.0abc": v is the number it starts with
Text(v) == [kind |-> "text", raw |-> v]

\* the truthiness test `indicators.X &&`
Present(indicators, id) ==
    id \in DOMAIN indicators.e /\ indicators.e[id].kind # "null"

\* indicators.X.raw as a double n/d (d > 0), in tenths
RawOf(indicators, id) ==
    [kind |-> indicators.e[id].kind, n |-> indicators.e[id].raw, d |-> 1]

\* parseFloat: a number is returned as it is; of a string the longest leading
\* part that reads as a number is converted and the rest ignored; NaN when
\* there is no such part
parseFloat(value) ==
    CASE value.kind = "text" -> [value EXCEPT !.kind = "num"]
      [] value.kind \in {"num", "inf", "nan"} -> value
      [] OTHER -> [value EXCEPT !.kind = "nan"]

\* validateNumber: parseFloat, then throw unless a finite number
validateNumber(value) ==
    LET num == parseFloat(value)
    IN  [throws |-> num.kind # "num", n |-> num.n, d |-> num.d]

\* the double a / b of two validated numbers, in tenths: not finite when b = 0
Divide(a, b) ==
    IF b.n = 0 THEN [kind |-> "bad", n |-> 0, d |-> 1]
    ELSE IF b.n > 0 THEN [kind |-> "num", n |-> 10 * a.n * b.d, d |-> a.d * b.n]
    ELSE [kind |-> "num", n |-> 0 - 10 * a.n * b.d, d |-> a.d * (0 - b.n)]

Subtract(a, b) == [kind |-> "num", n |-> a.n * b.d - b.n * a.d, d |-> a.d * b.d]

checkThreshold(value, threshold, operator) ==
    LET numValue == validateNumber(value)
    IN  IF numValue.throws THEN FALSE
        ELSE CASE operator = ">" -> numValue.n > threshold * numValue.d
               [] operator = "<" -> numValue.n < threshold * numValue.d
               [] operator = ">=" -> numValue.n >= threshold * numValue.d
               [] operator = "<=" -> numValue.n <= threshold * numValue.d
               [] operator = "==" -> numValue.n = threshold * numValue.d
               [] OTHER -> FALSE

\* applyTrendAdjustment testing the stored multiplier only, not the flag
applyTrendAdjustmentFlagIgnored(baseFactor, seriesId, useTrend, multipliers) ==
    IF seriesId \notin DOMAIN multipliers THEN baseFactor
    ELSE Mul(baseFactor, multipliers[seriesId])

\* `!this.trendMultipliers[seriesId]`: no entry for the series (a multiplier is
\* never 0)
applyTrendAdjustment(baseFactor, seriesId, useTrend, multipliers) ==
    IF ~useTrend \/ seriesId \notin DOMAIN multipliers THEN baseFactor
    ELSE Mul(baseFactor, multipliers[seriesId])

\* the object a recession rule pushes
TrendFactor(rule, seriesId, useTrend, multipliers) ==
    LET trendFactor == applyTrendAdjustment(rule.factor, seriesId, useTrend, multipliers)
    IN  [factor |-> trendFactor, baseFactor |-> rule.factor, reason |-> rule.reason,
         trendAdjusted |-> trendFactor # rule.factor]

\* the object the rules of the other four events push ({factor, reason})
PlainFactor(rule) ==
    [factor |-> rule.factor, baseFactor |-> rule.factor, reason |-> rule.reason,
     trendAdjusted |-> FALSE]

PushIf(cond, list, item) == IF cond THEN Append(list, item) ELSE list

calculateRecessionFactors(indicators, list, useTrend, multipliers) ==
    LET thresholds == ECONOMIC_THRESHOLDS.recession
        l1 == PushIf(Present(indicators, "DeficitGDP")
                       /\ checkThreshold(RawOf(indicators, "DeficitGDP"), thresholds.deficitGDP.value, ">"),
                     list, TrendFactor(thresholds.deficitGDP, "DeficitGDP", useTrend, multipliers))
        l2 == PushIf(Present(indicators, "BAA10Y")
                       /\ checkThreshold(RawOf(indicators, "BAA10Y"), thresholds.creditSpreads.value, ">"),
                     l1, TrendFactor(thresholds.creditSpreads, "BAA10Y", useTrend, multipliers))
    IN  PushIf(Present(indicators, "T10Y2Y")
                 /\ checkThreshold(RawOf(indicators, "T10Y2Y"), thresholds.yieldCurve.value, "<"),
               l2, TrendFactor(thresholds.yieldCurve, "T10Y2Y", useTrend, multipliers))

calculateDepressionFactors(indicators, list) ==
    LET thresholds == ECONOMIC_THRESHOLDS.depression
        l1 == PushIf(Present(indicators, "DFF")
                       /\ checkThreshold(RawOf(indicators, "DFF"), thresholds.fedFunds.value, "<"),
                     list, PlainFactor(thresholds.fedFunds))
        l2 == PushIf(Present(indicators, "GFDGDPA188S")
                       /\ checkThreshold(RawOf(indicators, "GFDGDPA188S"), thresholds.debtGDP.value, ">"),
                     l1, PlainFactor(thresholds.debtGDP))
        mb == validateNumber(RawOf(indicators, "BOGMBASE"))
        m2 == validateNumber(RawOf(indicators, "M2SL"))
    IN  PushIf(Present(indicators, "BOGMBASE") /\ Present(indicators, "M2SL")
                 /\ ~mb.throws /\ ~m2.throws
                 /\ checkThreshold(Divide(mb, m2), thresholds.mbToM2.value, ">"),
               l2, PlainFactor(thresholds.mbToM2))

calculateReserveFactors(indicators, list) ==
    LET thresholds == ECONOMIC_THRESHOLDS.reserve
    IN  PushIf(Present(indicators, "DXY")
                 /\ checkThreshold(RawOf(indicators, "DXY"), thresholds.dxy.value, "<"),
               list, PlainFactor(thresholds.dxy))

\* calculateDefaultFactors taking a missing fed-funds rate as 0 in the spread
calculateDefaultFactorsZeroFedFunds(indicators, list) ==
    LET thresholds == ECONOMIC_THRESHOLDS.default
        l1 == PushIf(Present(indicators, "DeficitGDP")
                       /\ checkThreshold(RawOf(indicators, "DeficitGDP"), thresholds.deficitGDP.value, ">"),
                     list, PlainFactor(thresholds.deficitGDP))
        l2 == PushIf(Present(indicators, "A091RC1Q027SBEA")
                       /\ checkThreshold(RawOf(indicators, "A091RC1Q027SBEA"), thresholds.interestPayments.value, ">"),
                     l1, PlainFactor(thresholds.interestPayments))
        dgs10 == validateNumber(RawOf(indicators, "DGS10"))
        dff == IF Present(indicators, "DFF") THEN validateNumber(RawOf(indicators, "DFF"))
               ELSE [throws |-> FALSE, n |-> 0, d |-> 1]
    IN  PushIf(Present(indicators, "DGS10")
                 /\ ~dgs10.throws /\ ~dff.throws
                 /\ checkThreshold(Subtract(dgs10, dff), thresholds.rateSpread.value, ">"),
               l2, PlainFactor(thresholds.rateSpread))

calculateDefaultFactors(indicators, list) ==
    LET thresholds == ECONOMIC_THRESHOLDS.default
        l1 == PushIf(Present(indicators, "DeficitGDP")
                       /\ checkThreshold(RawOf(indicators, "DeficitGDP"), thresholds.deficitGDP.value, ">"),
                     list, PlainFactor(thresholds.deficitGDP))
        l2 == PushIf(Present(indicators, "A091RC1Q027SBEA")
                       /\ checkThreshold(RawOf(indicators, "A091RC1Q027SBEA"), thresholds.interestPayments.value, ">"),
                     l1, PlainFactor(thresholds.interestPayments))
        dgs10 == validateNumber(RawOf(indicators, "DGS10"))
        dff == validateNumber(RawOf(indicators, "DFF"))
    IN  PushIf(Present(indicators, "DGS10") /\ Present(indicators, "DFF")
                 /\ ~dgs10.throws /\ ~dff.throws
                 /\ checkThreshold(Subtract(dgs10, dff), thresholds.rateSpread.value, ">"),
               l2, PlainFactor(thresholds.rateSpread))

\* calculateDevaluationFactors with its two rules in the other order
calculateDevaluationFactorsDeficitFirst(indicators, list) ==
    LET thresholds == ECONOMIC_THRESHOLDS.devaluation
        l1 == PushIf(Present(indicators, "DeficitGDP")
                       /\ checkThreshold(RawOf(indicators, "DeficitGDP"), thresholds.deficitGDP.value, ">"),
                     list, PlainFactor(thresholds.deficitGDP))
    IN  PushIf(Present(indicators, "DXY")
                 /\ checkThreshold(RawOf(indicators, "DXY"), thresholds.dxy.value, "<"),
               l1, PlainFactor(thresholds.dxy))

calculateDevaluationFactors(indicators, list) ==
    LET thresholds == ECONOMIC_THRESHOLDS.devaluation
        l1 == PushIf(Present(indicators, "DXY")
                       /\ checkThreshold(RawOf(indicators, "DXY"), thresholds.dxy.value, "<"),
                     list, PlainFactor(thresholds.dxy))
    IN  PushIf(Present(indicators, "DeficitGDP")
                 /\ checkThreshold(RawOf(indicators, "DeficitGDP"), thresholds.deficitGDP.value, ">"),
               l1, PlainFactor(thresholds.deficitGDP))

\* lines 54-58: the five calculate*Factors calls, each pushing onto the list
\* this.updateFactors holds at that moment
CalculateFactors(indicators, factors, useTrend, multipliers) ==
    [recession |-> calculateRecessionFactors(indicators, factors.recession, useTrend, multipliers),
     depression |-> calculateDepressionFactors(indicators, factors.depression),
     reserve |-> calculateReserveFactors(indicators, factors.reserve),
     default |-> calculateDefaultFactors(indicators, factors.default),
     devaluation |-> calculateDevaluationFactors(indicators, factors.devaluation)]

RECURSIVE Reduce(_, _)
\* factors.reduce((acc, f) => acc * f.factor, 1), from element i on
Reduce(factors, i) ==
    IF i > Len(factors) THEN One ELSE Mul(factors[i].factor, Reduce(factors, i + 1))

\* a discount that stays at CORRELATION_DISCOUNT[2] for three factors and more
DiscountFromTwo(len) == IF len >= 2 THEN CORRELATION_DISCOUNT[2] ELSE One

\* the correlation discount by which combinedFactor is multiplied
Discount(len) ==
    IF len = 2 THEN CORRELATION_DISCOUNT[2]
    ELSE IF len >= 3 THEN CORRELATION_DISCOUNT[3]
    ELSE One

\* the loop body without its else branch: an event without factors keeps the
\* probability it had
EventProbabilityKept(event, factors, previous) ==
    IF Len(factors) > 0
    THEN clamp(Mul(BASE_PROBABILITIES[event], Mul(Reduce(factors, 1), Discount(Len(factors)))), One)
    ELSE previous

\* the body of the loop of calculateAllProbabilities for one event: the value
\* assigned to this.currentProbabilities[event], which held previous
EventProbability(event, factors, previous) ==
    IF Len(factors) > 0
    THEN clamp(Mul(BASE_PROBABILITIES[event], Mul(Reduce(factors, 1), Discount(Len(factors)))), One)
    ELSE BASE_PROBABILITIES[event]

\* for (const event in this.currentProbabilities) ...
calculateAllProbabilities(factors, probabilities) ==
    [event \in DOMAIN probabilities |->
        EventProbability(event, factors[event], probabilities[event])]

EmptyFactors == [event \in EventSet |-> <<>>]

\* the indicator a rule compares with its threshold, by the rule's reason; ""
\* for the two rules that combine two indicators (mbToM2, rateSpread)
RuleIndicator(reason) ==
    CASE reason = "Deficit > 5% GDP" -> "DeficitGDP"
      [] reason = "Credit spreads > 400bps" -> "BAA10Y"
      [] reason = "Yield curve inverted" -> "T10Y2Y"
      [] reason = "Fed Funds < 0.5%" -> "DFF"
      [] reason = "Debt/GDP > 150%" -> "GFDGDPA188S"
      [] reason = "Dollar weakness" -> "DXY"
      [] reason = "Deficit > 7% GDP" -> "DeficitGDP"
      [] reason = "Interest payments > 4% GDP" -> "A091RC1Q027SBEA"
      [] reason = "DXY < 100" -> "DXY"
      [] reason = "High deficit monetization risk" -> "DeficitGDP"
      [] OTHER -> ""

\* getRiskLevel comparing with > in place of >=
getRiskLevelStrict(probabilities, event) ==
    LET probability == probabilities[event]
        thresholds == RISK_THRESHOLDS[event]
    IN  IF event \notin DOMAIN RISK_THRESHOLDS THEN "unknown"
        ELSE IF ~Geq(thresholds.critical, probability) THEN "critical"
        ELSE IF ~Geq(thresholds.high, probability) THEN "high"
        ELSE IF ~Geq(thresholds.moderate, probability) THEN "moderate"
        ELSE "low"

\* getRiskLevel(event), probabilities being this.currentProbabilities
getRiskLevel(probabilities, event) ==
    LET probability == probabilities[event]
        thresholds == RISK_THRESHOLDS[event]
    IN  IF event \notin DOMAIN RISK_THRESHOLDS THEN "unknown"
        ELSE IF Geq(probability, thresholds.critical) THEN "critical"
        ELSE IF Geq(probability, thresholds.high) THEN "high"
        ELSE IF Geq(probability, thresholds.moderate) THEN "moderate"
        ELSE "low"

\* getCriticalEvents(): the events kept by the filter
getCriticalEvents(probabilities) ==
    {event \in DOMAIN probabilities :
        event \in DOMAIN RISK_THRESHOLDS
            /\ Geq(probabilities[event], RISK_THRESHOLDS[event].critical)}

(***************************************************************************)
(* The calculator without trend analysis (pure threshold-based scoring).    *)
(* Its rules of the depression, reserve, default and devaluation events,    *)
(* its checkThreshold and its calculateAllProbabilities read as those       *)
(* above; its recession rules push {factor, reason} with the base factor.   *)
(***************************************************************************)
calculateRecessionFactorsThresholdOnly(indicators, list) ==
    LET thresholds == ECONOMIC_THRESHOLDS.recession
        l1 == PushIf(Present(indicators, "DeficitGDP")
                       /\ checkThreshold(RawOf(indicators, "DeficitGDP"), thresholds.deficitGDP.value, ">"),
                     list, PlainFactor(thresholds.deficitGDP))
        l2 == PushIf(Present(indicators, "BAA10Y")
                       /\ checkThreshold(RawOf(indicators, "BAA10Y"), thresholds.creditSpreads.value, ">"),
                     l1, PlainFactor(thresholds.creditSpreads))
    IN  PushIf(Present(indicators, "T10Y2Y")
                 /\ checkThreshold(RawOf(indicators, "T10Y2Y"), thresholds.yieldCurve.value, "<"),
               l2, PlainFactor(thresholds.yieldCurve))

\* updateProbabilities of that calculator: resetFactors, the five
\* calculate*Factors calls, calculateAllProbabilities; a null snapshot throws
\* at the first rule and the catch installs the base priors
updateProbabilitiesThresholdOnly(indicators) ==
    LET priors == [event \in EventSet |-> BASE_PROBABILITIES[event]]
    IN  IF indicators.isNull
        THEN [factors |-> EmptyFactors, probabilities |-> priors]
        ELSE LET factors ==
                    [recession |-> calculateRecessionFactorsThresholdOnly(indicators, <<>>),
                     depression |-> calculateDepressionFactors(indicators, <<>>),
                     reserve |-> calculateReserveFactors(indicators, <<>>),
                     default |-> calculateDefaultFactors(indicators, <<>>),
                     devaluation |-> calculateDevaluationFactors(indicators, <<>>)]
             IN  [factors |-> factors,
                  probabilities |-> calculateAllProbabilities(factors, priors)]

(***************************************************************************)
(* TrendAnalyzer.  historicalData maps a series id to its stored history,   *)
(* newest first, of integer values; a series without an entry has none.     *)
(* A double that may be non-finite is [kind, n, d]: the number n/d (d > 0)  *)
(* for kind "num", an infinity with the sign of n for "inf", NaN for "nan". *)
(***************************************************************************)
Abs(v) == IF v < 0 THEN 0 - v ELSE v

Sign(v) == IF v > 0 THEN 1 ELSE IF v < 0 THEN -1 ELSE 0

RECURSIVE SumOver(_, _, _)
\* the sum over i = from..n-1 of term[i] (the for loop of lines 487-495)
SumOver(term, from, n) ==
    IF from >= n THEN 0 ELSE term[from] + SumOver(term, from + 1, n)

\* a / b on doubles, a = an/ad, b = bn/bd, ad > 0 and bd > 0
DivDouble(an, ad, bn, bd) ==
    IF bn = 0 THEN (IF an = 0 THEN [kind |-> "nan", n |-> 0, d |-> 1]
                    ELSE [kind |-> "inf", n |-> Sign(an), d |-> 1])
    ELSE [kind |-> "num", n |-> an * bd * Sign(bn), d |-> ad * Abs(bn)]

\* normalizedSlope = (slope / avgValue) * 100 of lines 498-502
NormalizedSlope(data) ==
    LET n == Len(data)
        y == [i \in 0..(n - 1) |-> data[n - i]]
        sumX == SumOver([i \in 0..(n - 1) |-> i], 0, n)
        sumY == SumOver(y, 0, n)
        sumXY == SumOver([i \in 0..(n - 1) |-> i * y[i]], 0, n)
        sumX2 == SumOver([i \in 0..(n - 1) |-> i * i], 0, n)
        slopeNum == n * sumXY - sumX * sumY
        slopeDen == n * sumX2 - sumX * sumX
        q == DivDouble(slopeNum, slopeDen, sumY, n)
    IN  [q EXCEPT !.n = @ * 100]

\* calculateTrendDirection with a stable band that includes 0.5
calculateTrendDirectionInclusive(hd, seriesId, isInverted) ==
    IF seriesId \notin DOMAIN hd \/ Len(hd[seriesId]) < 3 THEN 0
    ELSE LET normalizedSlope == NormalizedSlope(hd[seriesId])
             stable == normalizedSlope.kind = "num"
                         /\ 2 * Abs(normalizedSlope.n) <= normalizedSlope.d
             positive == normalizedSlope.kind # "nan" /\ normalizedSlope.n > 0
         IN  IF stable THEN 0
             ELSE IF positive THEN (IF isInverted THEN -1 ELSE 1)
             ELSE (IF isInverted THEN 1 ELSE -1)

\* calculateTrendDirection that accepts a history of two points
calculateTrendDirectionOfTwo(hd, seriesId, isInverted) ==
    IF seriesId \notin DOMAIN hd \/ Len(hd[seriesId]) < 2 THEN 0
    ELSE LET normalizedSlope == NormalizedSlope(hd[seriesId])
             stable == normalizedSlope.kind = "num"
                         /\ 2 * Abs(normalizedSlope.n) < normalizedSlope.d
             positive == normalizedSlope.kind # "nan" /\ normalizedSlope.n > 0
         IN  IF stable THEN 0
             ELSE IF positive THEN (IF isInverted THEN -1 ELSE 1)
             ELSE (IF isInverted THEN 1 ELSE -1)

calculateTrendDirection(hd, seriesId, isInverted) ==
    IF seriesId \notin DOMAIN hd \/ Len(hd[seriesId]) < 3 THEN 0
    ELSE LET normalizedSlope == NormalizedSlope(hd[seriesId])
             \* Math.abs(normalizedSlope) < 0.5
             stable == normalizedSlope.kind = "num"
                         /\ 2 * Abs(normalizedSlope.n) < normalizedSlope.d
             \* normalizedSlope > 0
             positive == normalizedSlope.kind # "nan" /\ normalizedSlope.n > 0
         IN  IF stable THEN 0
             ELSE IF positive THEN (IF isInverted THEN -1 ELSE 1)
             ELSE (IF isInverted THEN 1 ELSE -1)

calculateVelocity(hd, seriesId) ==
    IF seriesId \notin DOMAIN hd \/ Len(hd[seriesId]) < 2
    THEN [kind |-> "num", n |-> 0, d |-> 1]
    ELSE LET data == hd[seriesId]
             latest == data[1]
             oldest == data[Len(data)]
             months == Len(data) - 1
             \* ((latest - oldest) / oldest) * 100
             totalChange == DivDouble(latest - oldest, 1, oldest, 1)
         IN  [totalChange EXCEPT !.n = @ * 100, !.d = @ * months]

\* velocity > 2.0 for velocity = Math.abs(calculateVelocity(..))
HighVelocity(velocity) ==
    \/ velocity.kind = "inf"
    \/ velocity.kind = "num" /\ Abs(velocity.n) > 2 * velocity.d

\* base multipliers whose improving entry is 0.5
directionMultipliersHalf(direction) ==
    IF direction = -1 THEN Rat(13, 10)
    ELSE IF direction = 0 THEN One
    ELSE Rat(5, 10)

directionMultipliers(direction) ==
    IF direction = -1 THEN Rat(13, 10)
    ELSE IF direction = 0 THEN One
    ELSE Rat(7, 10)

\* getTrendMultiplier without the cap and the floor of the velocity adjustment
getTrendMultiplierUncapped(hd, seriesId, isInverted) ==
    LET direction == calculateTrendDirection(hd, seriesId, isInverted)
        velocity == calculateVelocity(hd, seriesId)
        multiplier == directionMultipliers(direction)
    IN  IF HighVelocity(velocity)
        THEN IF direction = -1 THEN Mul(multiplier, Rat(12, 10))
             ELSE IF direction = 1 THEN Mul(multiplier, Rat(8, 10))
             ELSE multiplier
        ELSE multiplier

getTrendMultiplier(hd, seriesId, isInverted) ==
    LET direction == calculateTrendDirection(hd, seriesId, isInverted)
        velocity == calculateVelocity(hd, seriesId)
        multiplier == directionMultipliers(direction)
    IN  IF HighVelocity(velocity)
        THEN IF direction = -1 THEN MathMin(Mul(multiplier, Rat(12, 10)), Rat(15, 10))
             ELSE IF direction = 1 THEN MathMax(Mul(multiplier, Rat(8, 10)), Rat(5, 10))
             ELSE multiplier
        ELSE multiplier

invertedIndicators ==
    {"UNRATE", "BAA10Y", "VIXCLS", "GFDGDPA188S", "DeficitGDP", "A091RC1Q027SBEA"}

\* Object.keys(indicators).filter(id => id !== 'DXY')
SeriesIds(indicators) == DOMAIN indicators.e \ {"DXY"}

\* lines 650-658: the multipliers of the series that have a stored history
TrendMultipliersOf(hd, seriesIds) ==
    [id \in seriesIds \cap DOMAIN hd |-> getTrendMultiplier(hd, id, id \in invertedIndicators)]

\* data.observations.map(parseFloat).filter(not NaN): an observation is an
\* integer or "." (FRED's missing value, which parseFloat turns into NaN);
\* observations are [num, value] records
RECURSIVE StoredHistory(_, _)
StoredHistory(observations, i) ==
    IF i > Len(observations) THEN <<>>
    ELSE IF observations[i].num THEN <<observations[i].value>> \o StoredHistory(observations, i + 1)
    ELSE StoredHistory(observations, i + 1)

(***************************************************************************)
(* The calculator as a state machine.  updateProbabilities is an async      *)
(* function: it runs to its await of analyzeAllTrends, which runs to its    *)
(* await of Promise.allSettled; the history fetches then settle one by one  *)
(* in any order, analyzeAllTrends resumes and returns, and                  *)
(* updateProbabilities resumes.  Calls may overlap (auto-refresh timer and  *)
(* refresh button): each call in flight occupies one slot of cycles.        *)
(***************************************************************************)
MaxOverlap == 2

\* the calls of updateProbabilities a behaviour makes
MaxCycles == 2

Slots == 1..MaxOverlap

EmptySnapshotEntries == [id \in {} |-> Num(0)]

NullSnapshot == [isNull |-> TRUE, e |-> EmptySnapshotEntries]

Snapshot(entries) == [isNull |-> FALSE, e |-> entries]

\* deficit 6% and credit spreads 5%: two recession rules; DXY is malformed
TwoFactorSnapshot ==
    Snapshot([id \in {"DeficitGDP", "BAA10Y", "DXY"} |->
                 CASE id = "DeficitGDP" -> Num(60)
                   [] id = "BAA10Y" -> Num(50)
                   [] OTHER -> BadValue])

\* deficit 8%, credit spreads 5%, inverted curve, DXY 85: three recession
\* rules, one reserve, one default and two devaluation rules
StressSnapshot ==
    Snapshot([id \in {"DeficitGDP", "BAA10Y", "T10Y2Y", "DXY"} |->
                 CASE id = "DeficitGDP" -> Num(80)
                   [] id = "BAA10Y" -> Num(50)
                   [] id = "T10Y2Y" -> Num(-5)
                   [] OTHER -> Num(850)])

\* the snapshots updateProbabilities is called with
Snapshots == {NullSnapshot, TwoFactorSnapshot, StressSnapshot}

Obs(v) == [num |-> TRUE, value |-> v]

Missing == [num |-> FALSE, value |-> 0]

\* the bodies of successful history responses (data.observations, newest first)
Responses ==
    { <<Obs(102), Missing, Obs(101), Obs(100)>>,    \* rising about 1% a month
      <<Obs(30), Obs(20), Obs(10)>> }               \* rising 100% a month

NoMultipliers == [id \in {} |-> One]

NoHistory == [id \in {} |-> <<>>]

\* how the fetches of a call have settled so far
NoneSettled == [id \in {} |-> [ok |-> FALSE, observations |-> <<>>]]

\* a slot: pc is "idle", "fetching" (awaiting Promise.allSettled), "analyzed"
\* (analyzeAllTrends returned result, updateProbabilities not yet resumed) or
\* "rejected" (analyzeAllTrends threw); pending are the fetches in flight,
\* settled records how each of the others ended in this call
IdleCycle ==
    [pc |-> "idle", indicators |-> NullSnapshot, pending |-> {}, settled |-> NoneSettled,
     result |-> NoMultipliers]

Settle(settled, id, ok, observations) ==
    [k \in DOMAIN settled \cup {id} |->
        IF k = id THEN [ok |-> ok, observations |-> observations] ELSE settled[k]]

VARIABLES
    useTrendAnalysis,       \* this.useTrendAnalysis
    trendMultipliers,       \* this.trendMultipliers
    updateFactors,          \* this.updateFactors
    currentProbabilities,   \* this.currentProbabilities
    historicalData,         \* this.trendAnalyzer.historicalData
    cycles,                 \* the calls of updateProbabilities in flight, per slot
    started,                \* the number of calls made so far
    last,                   \* the call that returned last: its snapshot, and whether
                            \* its trend analysis was "off", "analyzed" or "failed"
    probe                   \* the component examined on its own: a TrendAnalyzer
                            \* (SpecTrend), the DataService (SpecData), a
                            \* throttled function (SpecThrottle), a call of
                            \* fetchWithRetry (SpecRetry) or the proxy server
                            \* (SpecProxy)

calc == <<useTrendAnalysis, trendMultipliers, updateFactors, currentProbabilities,
          historicalData, cycles, started, last>>

vars == <<calc, probe>>

NoCall == [indicators |-> NullSnapshot, trend |-> "none"]

\* the analyzer under examination holds one series, "S"
NoProbe == [pc |-> "none", data |-> <<>>, isInverted |-> FALSE, direction |-> 0,
            velocity |-> [kind |-> "num", n |-> 0, d |-> 1], multiplier |-> One]

\* the constructors of ProbabilityCalculator and TrendAnalyzer
Init ==
    /\ useTrendAnalysis = TRUE
    /\ trendMultipliers = NoMultipliers
    /\ updateFactors = EmptyFactors
    /\ currentProbabilities = [event \in EventSet |-> BASE_PROBABILITIES[event]]
    /\ historicalData = NoHistory
    /\ cycles = [c \in Slots |-> IdleCycle]
    /\ started = 0
    /\ last = NoCall
    /\ probe = NoProbe

InFlight(c) == cycles[c].pc # "idle"

\* a new call takes the first free slot
FreeSlot(c) == ~InFlight(c) /\ \A d \in Slots : d < c => InFlight(d)

\* lines 53-70 without the outer catch installing the base priors
EvaluateUncaught(indicators, factors, probabilities, useTrend, multipliers) ==
    IF indicators.isNull
    THEN [factors |-> factors, probabilities |-> probabilities]
    ELSE LET newFactors == CalculateFactors(indicators, factors, useTrend, multipliers)
         IN  [factors |-> newFactors,
              probabilities |-> calculateAllProbabilities(newFactors, probabilities)]

\* lines 53-70 of updateProbabilities: the five calculate*Factors calls and
\* calculateAllProbabilities; reading a rule's indicator off a null snapshot
\* throws, and the outer catch then installs the base priors
Evaluate(indicators, factors, probabilities, useTrend, multipliers) ==
    IF indicators.isNull
    THEN [factors |-> factors,
          probabilities |-> [event \in EventSet |-> BASE_PROBABILITIES[event]]]
    ELSE LET newFactors == CalculateFactors(indicators, factors, useTrend, multipliers)
         IN  [factors |-> newFactors,
              probabilities |-> calculateAllProbabilities(newFactors, probabilities)]

\* updateProbabilities with trend analysis enabled, up to its await:
\* resetFactors, then analyzeAllTrends up to Promise.allSettled (every fetch
\* issued), or analyzeAllTrends throwing (Object.keys of a null snapshot, or
\* any other fault inside it: fault)
UpdateStart(c, indicators, fault) ==
    /\ useTrendAnalysis
    /\ FreeSlot(c)
    /\ started < MaxCycles
    /\ started' = started + 1
    /\ updateFactors' = EmptyFactors
    /\ cycles' = [cycles EXCEPT ![c] =
            IF indicators.isNull \/ fault
            THEN [IdleCycle EXCEPT !.pc = "rejected", !.indicators = indicators]
            ELSE [IdleCycle EXCEPT !.pc = "fetching", !.indicators = indicators,
                                   !.pending = SeriesIds(indicators)]]
    /\ UNCHANGED <<useTrendAnalysis, trendMultipliers, currentProbabilities, historicalData,
                   last, probe>>

\* updateProbabilities with trend analysis disabled: no await, the whole call
\* is one step
UpdateSync(c, indicators) ==
    /\ ~useTrendAnalysis
    /\ FreeSlot(c)
    /\ started < MaxCycles
    /\ started' = started + 1
    /\ LET r == Evaluate(indicators, EmptyFactors, currentProbabilities, useTrendAnalysis,
                         trendMultipliers)
       IN  /\ updateFactors' = r.factors
           /\ currentProbabilities' = r.probabilities
    /\ last' = [indicators |-> indicators, trend |-> "off"]
    /\ UNCHANGED <<useTrendAnalysis, trendMultipliers, historicalData, cycles, probe>>

\* fetchHistoricalData of one series settles with a response: the filtered
\* observations are stored
FetchOk(c, id, observations) ==
    /\ cycles[c].pc = "fetching"
    /\ id \in cycles[c].pending
    /\ historicalData' =
          [k \in DOMAIN historicalData \cup {id} |->
              IF k = id THEN StoredHistory(observations, 1) ELSE historicalData[k]]
    /\ cycles' = [cycles EXCEPT ![c].pending = @ \ {id},
                                ![c].settled = Settle(@, id, TRUE, observations)]
    /\ UNCHANGED <<useTrendAnalysis, trendMultipliers, updateFactors, currentProbabilities,
                   started, last, probe>>

\* fetchHistoricalData of one series fails (network error, HTTP status,
\* invalid format): caught, null returned, nothing stored
FetchFail(c, id) ==
    /\ cycles[c].pc = "fetching"
    /\ id \in cycles[c].pending
    /\ cycles' = [cycles EXCEPT ![c].pending = @ \ {id},
                                ![c].settled = Settle(@, id, FALSE, <<>>)]
    /\ UNCHANGED <<useTrendAnalysis, trendMultipliers, updateFactors, currentProbabilities,
                   historicalData, started, last, probe>>

\* analyzeAllTrends computing its map without waiting for the fetches
AnalyzeJoinEarly(c) ==
    /\ cycles[c].pc = "fetching"
    /\ cycles' = [cycles EXCEPT
            ![c].pc = "analyzed",
            ![c].result = TrendMultipliersOf(historicalData, SeriesIds(cycles[c].indicators))]
    /\ UNCHANGED <<useTrendAnalysis, trendMultipliers, updateFactors, currentProbabilities,
                   historicalData, started, last, probe>>

\* analyzeAllTrends resumes after Promise.allSettled and returns its map
AnalyzeJoin(c) ==
    /\ cycles[c].pc = "fetching"
    /\ cycles[c].pending = {}
    /\ cycles' = [cycles EXCEPT
            ![c].pc = "analyzed",
            ![c].result = TrendMultipliersOf(historicalData, SeriesIds(cycles[c].indicators))]
    /\ UNCHANGED <<useTrendAnalysis, trendMultipliers, updateFactors, currentProbabilities,
                   historicalData, started, last, probe>>

\* updateProbabilities running lines 53-64 without awaiting analyzeAllTrends
ResumeNotAwaited(c) ==
    /\ cycles[c].pc \in {"fetching", "analyzed", "rejected"}
    /\ LET multipliers == IF cycles[c].pc = "analyzed" THEN cycles[c].result ELSE NoMultipliers
           r == Evaluate(cycles[c].indicators, updateFactors, currentProbabilities,
                         useTrendAnalysis, multipliers)
       IN  /\ trendMultipliers' = multipliers
           /\ updateFactors' = r.factors
           /\ currentProbabilities' = r.probabilities
    /\ last' = [indicators |-> cycles[c].indicators,
                trend |-> IF cycles[c].pc = "rejected" THEN "failed" ELSE "analyzed"]
    /\ cycles' = [cycles EXCEPT ![c] = IdleCycle]
    /\ UNCHANGED <<useTrendAnalysis, historicalData, started, probe>>

\* updateProbabilities resumes after its await: the multipliers are assigned
\* (the empty map in the catch of line 47), and the rest of the call runs
Resume(c) ==
    /\ cycles[c].pc \in {"analyzed", "rejected"}
    /\ LET multipliers == IF cycles[c].pc = "rejected" THEN NoMultipliers ELSE cycles[c].result
           r == Evaluate(cycles[c].indicators, updateFactors, currentProbabilities,
                         useTrendAnalysis, multipliers)
       IN  /\ trendMultipliers' = multipliers
           /\ updateFactors' = r.factors
           /\ currentProbabilities' = r.probabilities
    /\ last' = [indicators |-> cycles[c].indicators,
                trend |-> IF cycles[c].pc = "rejected" THEN "failed" ELSE "analyzed"]
    /\ cycles' = [cycles EXCEPT ![c] = IdleCycle]
    /\ UNCHANGED <<useTrendAnalysis, historicalData, started, probe>>

setTrendAnalysis(enabled) ==
    /\ useTrendAnalysis' = enabled
    /\ UNCHANGED <<trendMultipliers, updateFactors, currentProbabilities, historicalData,
                   cycles, started, last, probe>>

Next ==
    \/ \E c \in Slots, indicators \in Snapshots, fault \in BOOLEAN :
          UpdateStart(c, indicators, fault)
    \/ \E c \in Slots, indicators \in Snapshots : UpdateSync(c, indicators)
    \/ \E c \in Slots, id \in DOMAIN StressSnapshot.e, observations \in Responses :
          FetchOk(c, id, observations)
    \/ \E c \in Slots, id \in DOMAIN StressSnapshot.e : FetchFail(c, id)
    \/ \E c \in Slots : AnalyzeJoin(c)
    \/ \E c \in Slots : Resume(c)
    \/ \E enabled \in BOOLEAN : setTrendAnalysis(enabled)

Spec == Init /\ [][Next]_vars

(***************************************************************************)
(* The same calculator when no call is made while another is in flight.     *)
(***************************************************************************)
NoneInFlight == \A c \in Slots : ~InFlight(c)

NextSeq ==
    \/ \E c \in Slots, indicators \in Snapshots, fault \in BOOLEAN :
          NoneInFlight /\ UpdateStart(c, indicators, fault)
    \/ \E c \in Slots, indicators \in Snapshots :
          NoneInFlight /\ UpdateSync(c, indicators)
    \/ \E c \in Slots, id \in DOMAIN StressSnapshot.e, observations \in Responses :
          FetchOk(c, id, observations)
    \/ \E c \in Slots, id \in DOMAIN StressSnapshot.e : FetchFail(c, id)
    \/ \E c \in Slots : AnalyzeJoin(c)
    \/ \E c \in Slots : Resume(c)
    \/ \E enabled \in BOOLEAN : setTrendAnalysis(enabled)

SpecSeq == Init /\ [][NextSeq]_vars

(***************************************************************************)
(* A TrendAnalyzer on its own: one series with any stored history of up to  *)
(* MaxHistory values of HistoryValues, analysed by getTrendMultiplier.      *)
(***************************************************************************)
MaxHistory == 3

HistoryValues == {-2, -1, 0, 1, 100, 101, 102, 199, 200, 201}

RECURSIVE Histories(_)
\* the histories of length at most n
Histories(n) ==
    IF n = 0 THEN {<<>>}
    ELSE LET shorter == Histories(n - 1)
         IN  shorter \cup {Append(h, v) : h \in shorter, v \in HistoryValues}

ProbeData == [id \in {"S"} |-> probe.data]

InitTrend ==
    /\ useTrendAnalysis = TRUE
    /\ trendMultipliers = NoMultipliers
    /\ updateFactors = EmptyFactors
    /\ currentProbabilities = [event \in EventSet |-> BASE_PROBABILITIES[event]]
    /\ historicalData = NoHistory
    /\ cycles = [c \in Slots |-> IdleCycle]
    /\ started = 0
    /\ last = NoCall
    /\ probe \in {[NoProbe EXCEPT !.pc = "stored", !.data = h, !.isInverted = b] :
                     h \in Histories(MaxHistory), b \in BOOLEAN}

\* getTrendMultiplier(seriesId, isInverted) on the stored history
ProbeMultiplier ==
    /\ probe.pc = "stored"
    /\ probe' = [probe EXCEPT
            !.pc = "analysed",
            !.direction = calculateTrendDirection(ProbeData, "S", probe.isInverted),
            !.velocity = calculateVelocity(ProbeData, "S"),
            !.multiplier = getTrendMultiplier(ProbeData, "S", probe.isInverted)]
    /\ UNCHANGED calc

NextTrend == ProbeMultiplier

SpecTrend == InitTrend /\ [][NextTrend]_vars

(***************************************************************************)
(* The rules on their own: the first call of a calculator whose trend       *)
(* analysis has been switched off, on a snapshot in which each of five      *)
(* indicators is absent, null, NaN, infinite, unreadable, a string that     *)
(* starts with a number, or a number that triggers its rules.               *)
(***************************************************************************)
Absent == [kind |-> "absent", raw |-> 0]

EntryOptions(v) == {Absent, NullEntry, NaNValue, InfValue, BadValue, Text(v), Num(v)}

\* the snapshot object with the keys that are not absent
Entries(given) == [id \in {k \in DOMAIN given : given[k] # Absent} |-> given[id]]

RuleSnapshots ==
    {Snapshot(Entries([DFF |-> dff, DGS10 |-> dgs10, BOGMBASE |-> mb, M2SL |-> m2,
                       DeficitGDP |-> deficit, BAA10Y |-> Num(50), DXY |-> Num(850)])) :
        dff \in EntryOptions(3), dgs10 \in EntryOptions(45), mb \in EntryOptions(40),
        m2 \in EntryOptions(100) \cup {Num(0)}, deficit \in EntryOptions(80)}

\* the constructors, then setTrendAnalysis(false)
InitRules ==
    /\ useTrendAnalysis = FALSE
    /\ trendMultipliers = NoMultipliers
    /\ updateFactors = EmptyFactors
    /\ currentProbabilities = [event \in EventSet |-> BASE_PROBABILITIES[event]]
    /\ historicalData = NoHistory
    /\ cycles = [c \in Slots |-> IdleCycle]
    /\ started = 0
    /\ last = NoCall
    /\ probe = NoProbe

NextRules ==
    \E c \in Slots, indicators \in RuleSnapshots : started = 0 /\ UpdateSync(c, indicators)

SpecRules == InitRules /\ [][NextRules]_vars

(***************************************************************************)
(* DataService.  probe holds its fields useBackend and indicators, the      *)
(* calls of fetchAllData in flight (refreshData is started by the refresh   *)
(* button and by the auto-refresh timer without waiting for a running       *)
(* one), the call of checkBackendConnection in flight, what the last        *)
(* fetchAllData returned and what the last checkBackendConnection           *)
(* returned.  An indicator entry is its source and its raw value in         *)
(* hundredths.  A backend answer gives every series of MOCK_DATA either     *)
(* its data or an error; the series of Failable are those that may fail.    *)
(***************************************************************************)
MaxFetches == 2

MaxChecks == 3

\* value of each configured series, in hundredths
MOCK_DATA ==
    [DGS10 |-> 475, DFF |-> 433, GFDGDPA188S |-> 12300, BAA10Y |-> 215, UNRATE |-> 420,
     T10Y2Y |-> 20, VIXCLS |-> 1520, DEXUSEU |-> 103, GOLDAMGBD228NLBM |-> 265000,
     M2SL |-> 2140000, BOGMBASE |-> 580000, A091RC1Q027SBEA |-> 380]

Failable == {"DEXUSEU", "DGS10"}

\* the latest observation the backend returns for a series, in hundredths
LiveValue(id) == MOCK_DATA[id] + 5

NoIndicators == [id \in {} |-> [source |-> "", raw |-> 0]]

\* this.indicators[id] = entry
WithEntry(indicators, id, entry) ==
    [k \in DOMAIN indicators \cup {id} |-> IF k = id THEN entry ELSE indicators[k]]

\* processIndicatorData storing valid data of the series ids
WithLive(indicators, ids) ==
    [k \in DOMAIN indicators \cup ids |->
        IF k \in ids THEN [source |-> "FRED API", raw |-> LiveValue(k)] ELSE indicators[k]]

\* fetchMockIndicator of the series ids, after its sleep
WithMock(indicators, ids) ==
    [k \in DOMAIN indicators \cup ids |->
        IF k \in ids THEN [source |-> "Mock Data", raw |-> MOCK_DATA[k]] ELSE indicators[k]]

\* calculateDXY: 120 - eurUsd * 20, in hundredths; nothing without DEXUSEU
calculateDXY(indicators) ==
    IF "DEXUSEU" \notin DOMAIN indicators THEN indicators
    ELSE WithEntry(indicators, "DXY",
                   [source |-> "Calculated", raw |-> 12000 - indicators["DEXUSEU"].raw * 20])

\* the entry calculateDeficitGDP stores from the answer of the Treasury
\* endpoint (ratio 6.5 here), and its estimate when the request fails or the
\* backend is not used
TreasuryDeficit == [source |-> "US Treasury MTS & FRED GDP", raw |-> 650]

EstimatedDeficit == [source |-> "Estimate", raw |-> 720]

\* a call of fetchAllData: its position, the series whose mock fallback sleeps,
\* and whether it loads by the batch request or by single requests
IdleFetch == [pc |-> "idle", pendingMock |-> {}, individual |-> FALSE]

NotReturned == [done |-> FALSE, snapshot |-> NoIndicators]

\* the constructor of DataService
NewDataService ==
    [pc |-> "data", useBackend |-> FALSE, indicators |-> NoIndicators,
     calls |-> [c \in Slots |-> IdleFetch], fetches |-> 0, returned |-> NotReturned,
     health |-> "idle", checks |-> 0, checked |-> [done |-> FALSE, result |-> FALSE]]

InitData ==
    /\ useTrendAnalysis = TRUE
    /\ trendMultipliers = NoMultipliers
    /\ updateFactors = EmptyFactors
    /\ currentProbabilities = [event \in EventSet |-> BASE_PROBABILITIES[event]]
    /\ historicalData = NoHistory
    /\ cycles = [c \in Slots |-> IdleCycle]
    /\ started = 0
    /\ last = NoCall
    /\ probe = NewDataService

\* checkBackendConnection up to its await of the health request
checkBackendConnectionStart ==
    /\ probe.health = "idle"
    /\ probe.checks < MaxChecks
    /\ probe' = [probe EXCEPT !.health = "waiting", !.checks = @ + 1]
    /\ UNCHANGED calc

\* checkBackendConnection after the health request: the answer has status
\* 'ok' ("ok"), another status ("other"), or the request or its json() failed
\* ("fail")
checkBackendConnection(outcome) ==
    /\ probe.health = "waiting"
    /\ probe' = [probe EXCEPT
            !.health = "idle",
            !.useBackend = IF outcome = "ok" THEN TRUE
                           ELSE IF outcome = "fail" THEN FALSE ELSE @,
            !.checked = [done |-> TRUE, result |-> outcome = "ok"]]
    /\ UNCHANGED calc

\* fetchAllData up to its first await: the indicators are emptied and the
\* batch request is sent, or the mock indicators start their sleep
fetchAllData(c) ==
    /\ probe.calls[c].pc = "idle"
    /\ \A d \in Slots : d < c => probe.calls[d].pc # "idle"
    /\ probe.fetches < MaxFetches
    /\ probe' = [probe EXCEPT
            !.fetches = @ + 1,
            !.indicators = NoIndicators,
            !.calls[c] = [IdleFetch EXCEPT !.pc = IF probe.useBackend THEN "batch" ELSE "mock"]]
    /\ UNCHANGED calc

\* lines 59-63 of fetchAllData on the indicators loaded so far held by loaded:
\* calculateDXY, then calculateDeficitGDP up to its request, or with its
\* estimate and the return when the backend is not used
Derive(c, loaded) ==
    LET derived == calculateDXY(loaded)
        final == WithEntry(derived, "DeficitGDP", EstimatedDeficit)
    IN  IF probe.useBackend
        THEN [probe EXCEPT !.indicators = derived,
                           !.calls[c] = [@ EXCEPT !.pc = "deficit", !.pendingMock = {}]]
        ELSE [probe EXCEPT !.indicators = final,
                           !.calls[c] = IdleFetch,
                           !.returned = [done |-> TRUE, snapshot |-> final]]

\* fetchAllMockData: every sleep is over and every mock indicator stored
fetchAllMockData(c) ==
    /\ probe.calls[c].pc = "mock"
    /\ probe' = Derive(c, WithMock(probe.indicators, DOMAIN MOCK_DATA))
    /\ UNCHANGED calc

\* the entries of an answer are processed: the valid ones are stored at once,
\* those of failing fall back on the mock indicator and sleep first
Process(c, failing) ==
    LET stored == WithLive(probe.indicators, DOMAIN MOCK_DATA \ failing)
    IN  IF failing = {} THEN Derive(c, stored)
        ELSE [probe EXCEPT !.indicators = stored,
                           !.calls[c] = [@ EXCEPT !.pc = "fallback", !.pendingMock = failing]]

\* fetchAllDataFromBackend: the batch answer arrives, with errors for the
\* series of failing
fetchAllDataFromBackend(c, failing) ==
    /\ probe.calls[c].pc = "batch"
    /\ probe' = Process(c, failing)
    /\ UNCHANGED calc

\* the batch request fails: the catch starts fetchIndividualIndicators
BatchFailed(c) ==
    /\ probe.calls[c].pc = "batch"
    /\ probe' = [probe EXCEPT !.calls[c].pc = "individual", !.calls[c].individual = TRUE]
    /\ UNCHANGED calc

\* fetchIndividualIndicators: the single requests have been answered, those
\* of failing with a failure or invalid data
fetchIndividualIndicators(c, failing) ==
    /\ probe.calls[c].pc = "individual"
    /\ probe' = Process(c, failing)
    /\ UNCHANGED calc

\* fetchMockIndicator of the series that fell back: the sleeps are over
fetchMockIndicator(c) ==
    /\ probe.calls[c].pc = "fallback"
    /\ probe' = Derive(c, WithMock(probe.indicators, probe.calls[c].pendingMock))
    /\ UNCHANGED calc

\* calculateDeficitGDP after its request, answered with the ratio (ok) or
\* failed, and the return of fetchAllData
calculateDeficitGDP(c, ok) ==
    /\ probe.calls[c].pc = "deficit"
    /\ LET final == WithEntry(probe.indicators, "DeficitGDP",
                              IF ok THEN TreasuryDeficit ELSE EstimatedDeficit)
       IN  probe' = [probe EXCEPT
               !.indicators = final,
               !.calls[c] = IdleFetch,
               !.returned = [done |-> TRUE, snapshot |-> final]]
    /\ UNCHANGED calc

\* getConnectionStatus() on the indicators and the flag given
getConnectionStatus(indicators, useBackend) ==
    LET liveCount == Cardinality({k \in DOMAIN indicators : indicators[k].source = "FRED API"})
        mockCount == Cardinality({k \in DOMAIN indicators : indicators[k].source = "Mock Data"})
        totalCount == Cardinality(DOMAIN indicators)
    IN  [useBackend |-> useBackend, liveCount |-> liveCount, mockCount |-> mockCount,
         totalCount |-> totalCount,
         isFullyLive |-> useBackend /\ liveCount = totalCount,
         isPartialLive |-> useBackend /\ liveCount > 0 /\ liveCount < totalCount]

NextData ==
    \/ checkBackendConnectionStart
    \/ \E outcome \in {"ok", "other", "fail"} : checkBackendConnection(outcome)
    \/ \E c \in Slots : fetchAllData(c)
    \/ \E c \in Slots : fetchAllMockData(c)
    \/ \E c \in Slots, failing \in SUBSET Failable : fetchAllDataFromBackend(c, failing)
    \/ \E c \in Slots : BatchFailed(c)
    \/ \E c \in Slots, failing \in SUBSET Failable : fetchIndividualIndicators(c, failing)
    \/ \E c \in Slots : fetchMockIndicator(c)
    \/ \E c \in Slots, ok \in BOOLEAN : calculateDeficitGDP(c, ok)

SpecData == InitData /\ [][NextData]_vars

(***************************************************************************)
(* throttle(func, delay).  probe holds the closure's lastExecTime and       *)
(* timeoutId, the clock (now, what Date.now() returns), the timers that are *)
(* pending, and execs, the times at which func was executed.  Times are in  *)
(* units of delay / ThrottleDelay.  A timer runs at or after the time it is *)
(* due.                                                                     *)
(***************************************************************************)
ThrottleDelay == 3

MaxTime == 10

\* a timer of setTimeout: when it is due, and the currentTime its callback
\* has captured
NoTimer == [due |-> 0, currentTime |-> 0]

\* the closure after throttle(func, delay) returned; Date.now() is far
\* beyond delay
NewThrottle ==
    [pc |-> "throttle", now |-> ThrottleDelay, lastExecTime |-> 0,
     timeoutId |-> NoTimer, timers |-> {}, execs |-> <<>>]

\* the calculator as constructed, untouched while another component is examined
NewCalculator ==
    /\ useTrendAnalysis = TRUE
    /\ trendMultipliers = NoMultipliers
    /\ updateFactors = EmptyFactors
    /\ currentProbabilities = [event \in EventSet |-> BASE_PROBABILITIES[event]]
    /\ historicalData = NoHistory
    /\ cycles = [c \in Slots |-> IdleCycle]
    /\ started = 0
    /\ last = NoCall

InitThrottle ==
    /\ NewCalculator
    /\ probe = NewThrottle

\* the clock advances
Tick ==
    /\ probe.now < MaxTime
    /\ probe' = [probe EXCEPT !.now = @ + 1]
    /\ UNCHANGED calc

\* a call of the function throttle returned
throttle ==
    LET currentTime == probe.now
        elapsed == currentTime - probe.lastExecTime
        timer == [due |-> currentTime + (ThrottleDelay - elapsed),
                  currentTime |-> currentTime]
    IN  /\ probe' = IF elapsed < ThrottleDelay
                    THEN [probe EXCEPT
                              !.timers = (@ \ {probe.timeoutId}) \cup {timer},
                              !.timeoutId = timer]
                    ELSE [probe EXCEPT
                              !.lastExecTime = currentTime,
                              !.execs = Append(@, probe.now)]
        /\ UNCHANGED calc

\* the callback of a pending timer runs
throttleTimeout(timer) ==
    /\ timer \in probe.timers
    /\ timer.due <= probe.now
    /\ probe' = [probe EXCEPT
            !.timers = @ \ {timer},
            !.lastExecTime = timer.currentTime,
            !.execs = Append(@, probe.now)]
    /\ UNCHANGED calc

NextThrottle ==
    \/ Tick
    \/ throttle
    \/ \E timer \in probe.timers : throttleTimeout(timer)

SpecThrottle == InitThrottle /\ [][NextThrottle]_vars

(***************************************************************************)
(* fetchWithRetry of the frontend and of the proxy.  probe holds one call:  *)
(* its side, its limit of attempts, the loop variable attempt, where the    *)
(* call stands (at), the number of requests it has sent, the errors of the  *)
(* attempts that failed, the delays it has slept for in milliseconds, and   *)
(* what it returned or threw.                                               *)
(***************************************************************************)
MAX_RETRIES == 3

RETRY_DELAY_MS == 1000

\* what an attempt can fail with: a response that is not ok, the timeout, or
\* a failure of the connection
Errors == {"http", "timeout", "network"}

Sides == {"frontend", "proxy"}

RECURSIVE Pow2(_)
Pow2(n) == IF n <= 0 THEN 1 ELSE 2 * Pow2(n - 1)

NoOutcome == [kind |-> "none", error |-> "none", wrapped |-> FALSE]

\* a call of fetchWithRetry up to the await of its first request; the loop
\* of the frontend counts from 0, the loop of the proxy from 1
NewRetry(side, maxRetries) ==
    [pc |-> "retry", side |-> side, maxRetries |-> maxRetries,
     attempt |-> IF side = "frontend" THEN 0 ELSE 1,
     at |-> "request", requests |-> 0, failures |-> <<>>, waits |-> <<>>,
     outcome |-> NoOutcome]

InitRetry ==
    /\ NewCalculator
    /\ probe \in {NewRetry(side, maxRetries) : side \in Sides, maxRetries \in 1..MAX_RETRIES}

\* fetchWithTimeout settling in a loop that sleeps after the last attempt too
fetchWithTimeoutSleepsAfterLast(ok, error) ==
    /\ probe.side = "frontend"
    /\ probe.at = "request"
    /\ probe' =
          IF ok
          THEN [probe EXCEPT !.requests = @ + 1, !.at = "returned",
                             !.outcome = [kind |-> "response", error |-> "none",
                                          wrapped |-> FALSE]]
          ELSE [probe EXCEPT !.requests = @ + 1, !.failures = Append(@, error),
                             !.at = "sleeping",
                             !.waits = Append(@, RETRY_DELAY_MS * Pow2(probe.attempt))]
    /\ UNCHANGED calc

\* the frontend: fetchWithTimeout settles, up to the next await or the
\* return; error is what it throws when not ok
fetchWithTimeout(ok, error) ==
    /\ probe.side = "frontend"
    /\ probe.at = "request"
    /\ probe' =
          IF ok
          THEN [probe EXCEPT !.requests = @ + 1, !.at = "returned",
                             !.outcome = [kind |-> "response", error |-> "none",
                                          wrapped |-> FALSE]]
          ELSE IF probe.attempt < probe.maxRetries - 1
          THEN [probe EXCEPT !.requests = @ + 1, !.failures = Append(@, error),
                             !.at = "sleeping",
                             !.waits = Append(@, RETRY_DELAY_MS * Pow2(probe.attempt))]
          ELSE [probe EXCEPT !.requests = @ + 1, !.failures = Append(@, error),
                             !.attempt = @ + 1, !.at = "thrown",
                             !.outcome = [kind |-> "NetworkError", error |-> error,
                                          wrapped |-> TRUE]]
    /\ UNCHANGED calc

\* the frontend: sleep(delay) is over; the loop goes on while attempt is
\* below maxRetries, else the NetworkError is thrown
sleep ==
    /\ probe.side = "frontend"
    /\ probe.at = "sleeping"
    /\ probe' =
          IF probe.attempt + 1 < probe.maxRetries
          THEN [probe EXCEPT !.attempt = @ + 1, !.at = "request"]
          ELSE [probe EXCEPT !.attempt = @ + 1, !.at = "thrown",
                             !.outcome = [kind |-> "NetworkError",
                                          error |-> probe.failures[Len(probe.failures)],
                                          wrapped |-> TRUE]]
    /\ UNCHANGED calc

\* the proxy: axios settles, up to the next await, the return or the throw
axios(ok, error) ==
    /\ probe.side = "proxy"
    /\ probe.at = "request"
    /\ probe' =
          IF ok
          THEN [probe EXCEPT !.requests = @ + 1, !.at = "returned",
                             !.outcome = [kind |-> "response", error |-> "none",
                                          wrapped |-> FALSE]]
          ELSE IF probe.attempt = probe.maxRetries
          THEN [probe EXCEPT !.requests = @ + 1, !.failures = Append(@, error),
                             !.at = "thrown",
                             !.outcome = [kind |-> "error", error |-> error,
                                          wrapped |-> FALSE]]
          ELSE [probe EXCEPT !.requests = @ + 1, !.failures = Append(@, error),
                             !.at = "sleeping",
                             !.waits = Append(@, Pow2(probe.attempt - 1) * 1000)]
    /\ UNCHANGED calc

\* the proxy: the timer of the backoff has run; the loop goes on while
\* attempt is at most retries, else the function returns undefined
setTimeout ==
    /\ probe.side = "proxy"
    /\ probe.at = "sleeping"
    /\ probe' =
          IF probe.attempt + 1 <= probe.maxRetries
          THEN [probe EXCEPT !.attempt = @ + 1, !.at = "request"]
          ELSE [probe EXCEPT !.attempt = @ + 1, !.at = "returned",
                             !.outcome = [kind |-> "undefined", error |-> "none",
                                          wrapped |-> FALSE]]
    /\ UNCHANGED calc

NextRetry ==
    \/ \E ok \in BOOLEAN, error \in Errors : fetchWithTimeout(ok, error)
    \/ sleep
    \/ \E ok \in BOOLEAN, error \in Errors : axios(ok, error)
    \/ setTimeout

SpecRetry == InitRetry /\ [][NextRetry]_vars

(***************************************************************************)
(* The proxy server: its cache and the endpoints /api/fred/:seriesId,       *)
(* /api/fred/batch, /api/treasury/deficit and /api/cache/clear.  probe      *)
(* holds cache.data, the clock (now, what Date.now() returns, in units of   *)
(* CACHE_DURATION_MS / 2), the requests in flight per slot, the number of   *)
(* requests received, and the response sent last.                           *)
(***************************************************************************)
CACHE_DURATION_MS == 2

MaxClock == 4

MaxRequests == 2

BatchSeries == {"DFF", "DGS10"}

DeficitKey == "treasury:deficit_gdp"

\* the cache keys: 'fred:' + seriesId, written as the seriesId, and the key
\* of the deficit ratio
CacheKeys == BatchSeries \cup {DeficitKey}

\* the series arrays of a batch request, repeated ids included
SeriesArrays ==
    {<<>>} \cup {<<a>> : a \in BatchSeries} \cup {<<a, b>> : a, b \in BatchSeries}

\* the body of an answer of FRED: whether observations is an array, and the
\* observations; the value of an observation is a number as text ("num"), a
\* text that is no number ("bad", FRED's '.') or the empty string ("empty")
NoBody == [isArray |-> FALSE, observations |-> <<>>]

FredBodies ==
    {NoBody, [isArray |-> TRUE, observations |-> <<>>]}
    \cup {[isArray |-> TRUE, observations |-> <<[value |-> v, date |-> d]>>] :
            v \in {"num", "bad", "empty"}, d \in BOOLEAN}

\* what fetchWithRetry ends with: a body, or the error it throws
Failed == [isArray |-> FALSE, observations |-> <<[value |-> "error", date |-> FALSE]>>]

Upstream == FredBodies \cup {Failed}

\* validateFREDResponse: TRUE where it returns, FALSE where it throws
validateFREDResponse(data) ==
    /\ data.isArray
    /\ Len(data.observations) # 0
    /\ LET latest == data.observations[1]
       IN  /\ latest.value # "empty"
           /\ latest.date
           /\ latest.value = "num"

\* what is cached and served: a body of FRED, the deficit ratio computed
\* from the Treasury data and the GDP body, the estimate, or an error object
NoValue == [kind |-> "none", body |-> NoBody]

FredData(body) == [kind |-> "fred", body |-> body]

DeficitResult(gdp) == [kind |-> "deficit", body |-> gdp]

DeficitEstimate == [kind |-> "estimate", body |-> NoBody]

ErrorObject == [kind |-> "error", body |-> NoBody]

\* cache.data[key]
NoCached == [present |-> FALSE, value |-> NoValue, timestamp |-> 0]

\* cache.set(key, value) at the time now
cache_set(data, key, value, now) ==
    [data EXCEPT ![key] = [present |-> TRUE, value |-> value, timestamp |-> now]]

\* cache.get without the test of the age
cache_get_ignoring_age(data, key, now) ==
    IF ~data[key].present THEN NoCached ELSE data[key]

\* cache.get(key) at the time now: the entry it returns the value of (NoCached
\* for null), and cache.data after it
cache_get(data, key, now) ==
    IF ~data[key].present THEN NoCached
    ELSE IF now - data[key].timestamp > CACHE_DURATION_MS THEN NoCached
    ELSE data[key]

cache_get_data(data, key, now) ==
    IF data[key].present /\ now - data[key].timestamp > CACHE_DURATION_MS
    THEN [data EXCEPT ![key] = NoCached]
    ELSE data

\* an entry of a response: the value, whether it has the field error, its
\* field cached, and for a cached value the age it was served at
NoEntry == [present |-> FALSE, value |-> NoValue, error |-> FALSE, cached |-> FALSE, age |-> 0]

CachedEntry(cached, now) ==
    [present |-> TRUE, value |-> cached.value, error |-> FALSE, cached |-> TRUE,
     age |-> now - cached.timestamp]

FetchedEntry(value) ==
    [present |-> TRUE, value |-> value, error |-> FALSE, cached |-> FALSE, age |-> 0]

ErrorEntry ==
    [present |-> TRUE, value |-> ErrorObject, error |-> TRUE, cached |-> FALSE, age |-> 0]

NoEntries == [key \in CacheKeys |-> NoEntry]

NoMetadata == [total |-> 0, successful |-> 0, failed |-> 0, cacheHits |-> 0, cacheMisses |-> 0]

\* a request in flight: the endpoint, the series array of a batch (the id of
\* a single request), the positions of the array whose fetch is awaited, how
\* each position ended, the results and the counters of the batch, and the
\* Treasury answer of a deficit request
IdleRequest ==
    [endpoint |-> "idle", series |-> <<>>, pending |-> {},
     ended |-> <<>>, results |-> NoEntries, cacheHits |-> 0, cacheMisses |-> 0,
     treasury |-> "none"]

NoResponse ==
    [status |-> 0, endpoint |-> "none", series |-> <<>>, ended |-> <<>>,
     entries |-> NoEntries, metadata |-> NoMetadata]

NewProxy ==
    [pc |-> "proxy", now |-> 0, data |-> [key \in CacheKeys |-> NoCached],
     requests |-> [c \in Slots |-> IdleRequest], received |-> 0,
     response |-> NoResponse]

InitProxy ==
    /\ NewCalculator
    /\ probe = NewProxy

\* the slot a new request takes
RequestSlot(c) ==
    /\ probe.requests[c].endpoint = "idle"
    /\ \A d \in Slots : d < c => probe.requests[d].endpoint # "idle"
    /\ probe.received < MaxRequests

\* the clock of the server advances
ClockTick ==
    /\ probe.now < MaxClock
    /\ probe' = [probe EXCEPT !.now = @ + 1]
    /\ UNCHANGED calc

\* the response of a request for one key
Single(status, endpoint, key, entry) ==
    [status |-> status, endpoint |-> endpoint, series |-> <<>>, ended |-> <<>>,
     entries |-> [NoEntries EXCEPT ![key] = entry], metadata |-> NoMetadata]

\* GET /api/fred/:seriesId up to the response from the cache or the await
\* of fetchWithRetry
getSeries(c, seriesId) ==
    LET cached == cache_get(probe.data, seriesId, probe.now)
        data == cache_get_data(probe.data, seriesId, probe.now)
    IN  /\ RequestSlot(c)
        /\ probe' =
              IF cached.present
              THEN [probe EXCEPT
                        !.received = @ + 1, !.data = data,
                        !.response = Single(200, "series", seriesId,
                                            CachedEntry(cached, probe.now))]
              ELSE [probe EXCEPT
                        !.received = @ + 1, !.data = data,
                        !.requests[c] = [IdleRequest EXCEPT
                            !.endpoint = "series", !.series = <<seriesId>>,
                            !.pending = {1}]]
        /\ UNCHANGED calc

\* GET /api/fred/:seriesId after fetchWithRetry settled
getSeriesFetched(c, upstream) ==
    LET seriesId == probe.requests[c].series[1]
    IN  /\ probe.requests[c].endpoint = "series"
        /\ probe' =
              IF upstream # Failed /\ validateFREDResponse(upstream)
              THEN [probe EXCEPT
                        !.data = cache_set(@, seriesId, FredData(upstream), probe.now),
                        !.requests[c] = IdleRequest,
                        !.response = Single(200, "series", seriesId,
                                            FetchedEntry(FredData(upstream)))]
              ELSE [probe EXCEPT
                        !.requests[c] = IdleRequest,
                        !.response = Single(500, "series", seriesId, ErrorEntry)]
        /\ UNCHANGED calc

\* the response of a batch whose tasks have all ended
BatchResponse(request) ==
    LET results == request.results
    IN  [status |-> 200, endpoint |-> "batch", series |-> request.series,
         ended |-> request.ended, entries |-> results,
         metadata |->
             [total |-> Len(request.series),
              successful |-> Cardinality({k \in CacheKeys :
                                 results[k].present /\ ~results[k].error}),
              failed |-> Cardinality({k \in CacheKeys :
                                 results[k].present /\ results[k].error}),
              cacheHits |-> request.cacheHits,
              cacheMisses |-> request.cacheMisses]]

\* the cache after cache.get of every key of the set
RECURSIVE cache_get_all(_, _, _)
cache_get_all(data, keys, now) ==
    IF keys = {} THEN data
    ELSE LET key == CHOOSE k \in keys : TRUE
         IN  cache_get_all(cache_get_data(data, key, now), keys \ {key}, now)

\* POST /api/fred/batch with a body whose series is no array
postBatchInvalid(c) ==
    /\ RequestSlot(c)
    /\ probe' = [probe EXCEPT
            !.received = @ + 1,
            !.response = [NoResponse EXCEPT !.status = 400, !.endpoint = "batch"]]
    /\ UNCHANGED calc

\* POST /api/fred/batch: every callback of series.map up to its return from
\* the cache or its await of fetchWithRetry; the response when none awaits
postBatch(c, series) ==
    LET now == probe.now
        hit(i) == cache_get(probe.data, series[i], now).present
        hits == {i \in DOMAIN series : hit(i)}
        request ==
            [IdleRequest EXCEPT
                !.endpoint = "batch", !.series = series,
                !.pending = DOMAIN series \ hits,
                !.ended = [i \in DOMAIN series |-> IF hit(i) THEN "hit" ELSE "pending"],
                !.results = [key \in CacheKeys |->
                                IF \E i \in hits : series[i] = key
                                THEN CachedEntry(cache_get(probe.data, key, now), now)
                                ELSE NoEntry],
                !.cacheHits = Cardinality(hits),
                !.cacheMisses = Cardinality(DOMAIN series \ hits)]
        data == cache_get_all(probe.data, {series[i] : i \in DOMAIN series}, now)
    IN  /\ RequestSlot(c)
        /\ probe' =
              IF request.pending = {}
              THEN [probe EXCEPT !.received = @ + 1, !.data = data,
                                 !.response = BatchResponse(request)]
              ELSE [probe EXCEPT !.received = @ + 1, !.data = data,
                                 !.requests[c] = request]
        /\ UNCHANGED calc

\* the callback of position i without its try and catch: a failure is
\* caught by the handler, which answers the whole batch with status 500
postBatchFetchedUncaught(c, i, upstream) ==
    LET before == probe.requests[c]
        seriesId == before.series[i]
        valid == upstream # Failed /\ validateFREDResponse(upstream)
        request ==
            [before EXCEPT
                !.pending = @ \ {i},
                !.ended[i] = IF valid THEN "fetched" ELSE "failed",
                !.results[seriesId] = IF valid THEN FetchedEntry(FredData(upstream))
                                      ELSE @]
        data == IF valid THEN cache_set(probe.data, seriesId, FredData(upstream), probe.now)
                ELSE probe.data
    IN  /\ probe.requests[c].endpoint = "batch"
        /\ i \in probe.requests[c].pending
        /\ probe' =
              IF ~valid
              THEN [probe EXCEPT !.requests[c] = IdleRequest,
                                 !.response = [BatchResponse(request) EXCEPT
                                                  !.status = 500, !.entries = NoEntries]]
              ELSE IF request.pending = {}
              THEN [probe EXCEPT !.data = data, !.requests[c] = IdleRequest,
                                 !.response = BatchResponse(request)]
              ELSE [probe EXCEPT !.data = data, !.requests[c] = request]
        /\ UNCHANGED calc

\* POST /api/fred/batch: the callback of position i after fetchWithRetry
\* settled; the response when it was the last one awaited
postBatchFetched(c, i, upstream) ==
    LET before == probe.requests[c]
        seriesId == before.series[i]
        valid == upstream # Failed /\ validateFREDResponse(upstream)
        request ==
            [before EXCEPT
                !.pending = @ \ {i},
                !.ended[i] = IF valid THEN "fetched" ELSE "failed",
                !.results[seriesId] = IF valid THEN FetchedEntry(FredData(upstream))
                                      ELSE ErrorEntry]
        data == IF valid THEN cache_set(probe.data, seriesId, FredData(upstream), probe.now)
                ELSE probe.data
    IN  /\ probe.requests[c].endpoint = "batch"
        /\ i \in probe.requests[c].pending
        /\ probe' =
              IF request.pending = {}
              THEN [probe EXCEPT !.data = data, !.requests[c] = IdleRequest,
                                 !.response = BatchResponse(request)]
              ELSE [probe EXCEPT !.data = data, !.requests[c] = request]
        /\ UNCHANGED calc

\* GET /api/treasury/deficit up to the response from the cache or the await
\* of the Treasury request
getDeficit(c) ==
    LET cached == cache_get(probe.data, DeficitKey, probe.now)
        data == cache_get_data(probe.data, DeficitKey, probe.now)
    IN  /\ RequestSlot(c)
        /\ probe' =
              IF cached.present
              THEN [probe EXCEPT
                        !.received = @ + 1, !.data = data,
                        !.response = Single(200, "deficit", DeficitKey,
                                            CachedEntry(cached, probe.now))]
              ELSE [probe EXCEPT
                        !.received = @ + 1, !.data = data,
                        !.requests[c] = [IdleRequest EXCEPT !.endpoint = "deficit"]]
        /\ UNCHANGED calc

\* the fallback of the catch block: the estimate, with status 200
EstimateResponse == Single(200, "deficit", DeficitKey, FetchedEntry(DeficitEstimate))

\* GET /api/treasury/deficit after the Treasury request settled: it failed
\* ("fail"), or it answered with no rows ("empty") or with rows ("rows")
getDeficitTreasury(c, treasury) ==
    /\ probe.requests[c].endpoint = "deficit"
    /\ probe.requests[c].treasury = "none"
    /\ probe' =
          IF treasury = "fail"
          THEN [probe EXCEPT !.requests[c] = IdleRequest, !.response = EstimateResponse]
          ELSE [probe EXCEPT !.requests[c].treasury = treasury]
    /\ UNCHANGED calc

\* GET /api/treasury/deficit after the GDP request settled
getDeficitGDP(c, upstream) ==
    LET result == DeficitResult(upstream)
    IN  /\ probe.requests[c].endpoint = "deficit"
        /\ probe.requests[c].treasury # "none"
        /\ probe' =
              IF /\ upstream # Failed
                 /\ probe.requests[c].treasury = "rows"
                 /\ validateFREDResponse(upstream)
              THEN [probe EXCEPT
                        !.data = cache_set(@, DeficitKey, result, probe.now),
                        !.requests[c] = IdleRequest,
                        !.response = Single(200, "deficit", DeficitKey, FetchedEntry(result))]
              ELSE [probe EXCEPT !.requests[c] = IdleRequest, !.response = EstimateResponse]
        /\ UNCHANGED calc

\* POST /api/cache/clear
cache_clear ==
    /\ probe.data # NewProxy.data
    /\ probe' = [probe EXCEPT !.data = NewProxy.data]
    /\ UNCHANGED calc

NextProxy ==
    \/ ClockTick
    \/ \E c \in Slots, seriesId \in BatchSeries : getSeries(c, seriesId)
    \/ \E c \in Slots, upstream \in Upstream : getSeriesFetched(c, upstream)
    \/ \E c \in Slots : postBatchInvalid(c)
    \/ \E c \in Slots, series \in SeriesArrays : postBatch(c, series)
    \/ \E c \in Slots, i \in 1..2, upstream \in Upstream : postBatchFetched(c, i, upstream)
    \/ \E c \in Slots : getDeficit(c)
    \/ \E c \in Slots, treasury \in {"fail", "empty", "rows"} : getDeficitTreasury(c, treasury)
    \/ \E c \in Slots, upstream \in Upstream : getDeficitGDP(c, upstream)
    \/ cache_clear

SpecProxy == InitProxy /\ [][NextProxy]_vars

(***************************************************************************)
(* Properties.  A call of updateProbabilities returns in a Resume step or   *)
(* in an UpdateSync step; last' is then that call.                          *)
(***************************************************************************)
ResumeStep(c) == cycles[c].pc \in {"analyzed", "rejected"} /\ cycles'[c].pc = "idle"

SyncStep == started' = started + 1 /\ cycles' = cycles

Returned == SyncStep \/ \E c \in Slots : ResumeStep(c)

\* the call that returns ran lines 53-67 without an exception
Aggregated == Returned /\ ~last'.indicators.isNull

JoinStep(c) == cycles[c].pc = "fetching" /\ cycles'[c].pc = "analyzed"

(***************************************************************************)
(* Sequential calls under the scheduling of the event loop: every history   *)
(* fetch issued settles, with a response or with a failure, and every       *)
(* continuation whose promise has settled is run.  AnalyzeJoin(c) is        *)
(* enabled exactly when the call awaits no more fetch, and Resume(c)        *)
(* exactly when analyzeAllTrends has returned or thrown; their weak         *)
(* fairness is written out with these conditions.                           *)
(***************************************************************************)
Fairness ==
    \A c \in Slots :
        /\ \A id \in DOMAIN StressSnapshot.e :
              WF_vars((\E observations \in Responses : FetchOk(c, id, observations))
                          \/ FetchFail(c, id))
        /\ \/ []<>~(cycles[c].pc = "fetching" /\ cycles[c].pending = {})
           \/ []<><<JoinStep(c)>>_cycles
        /\ \/ []<>~(cycles[c].pc \in {"analyzed", "rejected"})
           \/ []<><<ResumeStep(c)>>_cycles

SpecLive == SpecSeq /\ Fairness

InUnitInterval(probabilities) ==
    \A event \in EventSet : Geq(One, probabilities[event])

\* the stated discount for n triggered factors
StatedDiscount(n) == IF n <= 1 THEN One ELSE IF n = 2 THEN Rat(7, 10) ELSE Rat(5, 10)

\* prior x product of the factors x stated discount, not clamped
StatedProduct(event, factors) ==
    Mul(BASE_PROBABILITIES[event], Mul(Reduce(factors, 1), StatedDiscount(Len(factors))))

FactorValues(factors) == [i \in 1..Len(factors) |-> factors[i].factor]

\* C1: initially and after every call of updateProbabilities, overlapping or
\* not, every event's probability is at most 1 (and positive, as every value
\* of this model); and when the call aggregated its factors, the probability
\* of an event whose prior x product of factors x discount is at least 1 is
\* exactly 1.
C1_ProbabilityInUnitInterval ==
    /\ InUnitInterval(currentProbabilities)
    /\ [][/\ (Returned \/ currentProbabilities' # currentProbabilities)
                => InUnitInterval(currentProbabilities')
          /\ Aggregated =>
                \A event \in EventSet :
                    Geq(StatedProduct(event, updateFactors'[event]), One)
                        => currentProbabilities'[event] = One]_vars

\* C1: a call has returned recession = 1 from three factors whose product
\* with the prior and the discount exceeds 1.
C1_ClampedToOne ==
    /\ last.trend # "none"
    /\ Len(updateFactors.recession) = 3
    /\ ~Geq(One, StatedProduct("recession", updateFactors.recession))
    /\ currentProbabilities.recession = One

NoRuleTwice(factors) ==
    \A i, j \in 1..Len(factors) : factors[i].reason = factors[j].reason => i = j

\* C2: when a call that aggregated its factors returns, also after running
\* while another call was suspended, every event's list holds exactly the
\* factors of that call's snapshot, and no rule appears twice in a list.
C2_FactorListsOfOneCycle ==
    [][\A c \in Slots :
          (ResumeStep(c) /\ ~cycles[c].indicators.isNull) =>
              /\ updateFactors' = CalculateFactors(cycles[c].indicators, EmptyFactors,
                                                   useTrendAnalysis, trendMultipliers')
              /\ \A event \in EventSet : NoRuleTwice(updateFactors'[event])]_vars

\* C3: when a call returns, every event whose factor list is empty has its
\* base prior as probability, whatever the probability was before the call.
C3_EmptyListGivesPrior ==
    [][Returned =>
          \A event \in EventSet :
              updateFactors'[event] = <<>>
                  => currentProbabilities'[event] = BASE_PROBABILITIES[event]]_vars

\* C3: a second call has returned with an empty depression list and the
\* depression prior, while its recession rules triggered.
C3_PriorAfterSecondCycle ==
    /\ started = 2
    /\ last.trend # "none"
    /\ Len(updateFactors.recession) >= 2
    /\ currentProbabilities.recession # BASE_PROBABILITIES.recession
    /\ updateFactors.depression = <<>>
    /\ currentProbabilities.depression = BASE_PROBABILITIES.depression

\* C4: when a call that aggregated its factors returns, every event's
\* probability is prior x product of its n factors x d(n), capped at 1, with
\* d(0) = d(1) = 1, d(2) = 0.7 and d(n) = 0.5 for n >= 3, the discount entering
\* once; factors 1.8 and 2.0 on the recession prior 0.15 give 0.378.
C4_CorrelationDiscountOnce ==
    [][Aggregated =>
          /\ \A event \in EventSet :
                LET stated == StatedProduct(event, updateFactors'[event])
                IN  currentProbabilities'[event] = IF Geq(stated, One) THEN One ELSE stated
          /\ FactorValues(updateFactors'.recession) = <<Rat(18, 10), Rat(20, 10)>>
                => currentProbabilities'.recession = Rat(378, 1000)]_vars

\* C4: a call has returned recession = 0.378 from the two factors 1.8 and 2.0.
C4_TwoFactorExample ==
    /\ last.trend # "none"
    /\ FactorValues(updateFactors.recession) = <<Rat(18, 10), Rat(20, 10)>>
    /\ currentProbabilities.recession = Rat(378, 1000)

\* the multiplier of an indicator, 1.0 when it has none
MultiplierOrOne(multipliers, id) == IF id \in DOMAIN multipliers THEN multipliers[id] ELSE One

\* C5: when a call with trend analysis enabled returns without another call
\* in flight, every factor of a single-indicator rule, in every event's list,
\* is the rule's base factor x the multiplier of the rule's indicator (1.0
\* without one); recession factors 1.8 x 1.3 and 2.0 x 1.0 give 0.4914.
C5_EveryRuleTrendAdjusted ==
    [][(Aggregated /\ useTrendAnalysis /\ last'.trend = "analyzed") =>
          /\ \A event \in EventSet :
                \A i \in 1..Len(updateFactors'[event]) :
                    LET f == updateFactors'[event][i]
                        id == RuleIndicator(f.reason)
                    IN  id # "" =>
                            f.factor = Mul(f.baseFactor, MultiplierOrOne(trendMultipliers', id))
          /\ FactorValues(updateFactors'.recession) = <<Rat(234, 100), Rat(20, 10)>>
                => currentProbabilities'.recession = Rat(4914, 10000)]_vars

C8_FailedFetchHasNoMultiplier ==
    \A c \in Slots :
        cycles[c].pc = "analyzed" =>
            \A id \in DOMAIN cycles[c].settled :
                ~cycles[c].settled[id].ok => id \notin DOMAIN cycles[c].result

\* the history a call's own successful fetch of id stored
OwnHistory(c, id) == [k \in {id} |-> StoredHistory(cycles[c].settled[id].observations, 1)]

\* C9: within a call of analyzeAllTrends with no other call in flight: the
\* fetches of all series are in flight before any has settled; the
\* multipliers are computed when all have settled, not before; and every
\* series whose fetch succeeded has the multiplier of the history that fetch
\* returned, whichever other fetches failed and in whichever order they
\* settled.
C9_FetchesJoinedAndIndependent ==
    /\ \A c \in Slots :
          cycles[c].pc = "fetching" =>
              /\ cycles[c].pending \cup DOMAIN cycles[c].settled = SeriesIds(cycles[c].indicators)
              /\ cycles[c].pending \cap DOMAIN cycles[c].settled = {}
              /\ cycles[c].result = NoMultipliers
    /\ [][\A c \in Slots :
             JoinStep(c) =>
                 /\ cycles[c].pending = {}
                 /\ DOMAIN cycles[c].settled = SeriesIds(cycles[c].indicators)
                 /\ \A id \in DOMAIN cycles[c].settled :
                       cycles[c].settled[id].ok =>
                           /\ id \in DOMAIN cycles'[c].result
                           /\ cycles'[c].result[id] =
                                 getTrendMultiplier(OwnHistory(c, id), id,
                                                    id \in invertedIndicators)]_vars

\* C9: analyzeAllTrends has returned after one fetch failed and another
\* succeeded, and the series that succeeded has its multiplier 1.5.
C9_PartialFailureAnalyzed ==
    \E c \in Slots :
        /\ cycles[c].pc = "analyzed"
        /\ \E a, b \in DOMAIN cycles[c].settled :
              /\ cycles[c].settled[a].ok
              /\ ~cycles[c].settled[b].ok
              /\ a \in DOMAIN cycles[c].result
              /\ cycles[c].result[a] = Rat(15, 10)

\* C10: every call of updateProbabilities that is started can return, whatever
\* its snapshot (null, entries missing or malformed) and however its fetches
\* ended; when it returns, the probabilities hold exactly the five events,
\* each at most 1, and they are the base priors when the snapshot was null
\* (the exception caught at line 65).
C10_AlwaysFiveProbabilities ==
    /\ \A c \in Slots : cycles[c].pc \in {"analyzed", "rejected"} => ENABLED Resume(c)
    /\ [][Returned =>
             /\ DOMAIN currentProbabilities' = EventSet
             /\ InUnitInterval(currentProbabilities')
             /\ last'.indicators.isNull =>
                   currentProbabilities' = [event \in EventSet |-> BASE_PROBABILITIES[event]]]_vars

\* C10: a call with a null snapshot has returned the base priors after an
\* earlier call.
C10_NullSnapshotGivesPriors ==
    /\ started = 2
    /\ last.indicators.isNull
    /\ last.trend \in {"failed", "off"}
    /\ currentProbabilities = [event \in EventSet |-> BASE_PROBABILITIES[event]]

\* the values of a stored history (newest first) rise from each point to the
\* next newer one
Rising(data) == \A i \in 1..(Len(data) - 1) : data[i] > data[i + 1]

\* C12: after calculateTrendDirection on a stored history of at least 3
\* points whose values rise over time and which is not classified stable, the
\* direction is -1 for an inverted indicator and +1 for one that is not,
\* whatever the sign of the values.
C12_RisingDirectionBySign ==
    (probe.pc = "analysed" /\ Len(probe.data) >= 3 /\ Rising(probe.data)
        /\ probe.direction # 0)
        => probe.direction = IF probe.isInverted THEN -1 ELSE 1

\* C13: after calculateTrendDirection on a stored history of at least 3
\* points, |normalizedSlope| < 0.5 gives direction 0 and multiplier 1.0, and
\* |normalizedSlope| >= 0.5 (0.5 itself and an infinite slope included) gives
\* direction +1 or -1.
C13_StableBandExclusive ==
    (probe.pc = "analysed" /\ Len(probe.data) >= 3) =>
        LET slope == NormalizedSlope(probe.data)
        IN  /\ (slope.kind = "num" /\ 2 * Abs(slope.n) < slope.d)
                  => (probe.direction = 0 /\ probe.multiplier = One)
            /\ (slope.kind = "inf" \/ (slope.kind = "num" /\ 2 * Abs(slope.n) >= slope.d))
                  => probe.direction \in {-1, 1}

\* C13: a history whose normalized slope is exactly 0.5 (199, 200, 201) has
\* been analysed and is not stable.
C13_SlopeExactlyHalf ==
    /\ probe.pc = "analysed"
    /\ Len(probe.data) >= 3
    /\ NormalizedSlope(probe.data).kind = "num"
    /\ 2 * Abs(NormalizedSlope(probe.data).n) = NormalizedSlope(probe.data).d
    /\ probe.direction # 0

\* C14: after getTrendMultiplier on a stored history of fewer than 3 points
\* the direction is 0 and the multiplier 1.0, whatever the velocity; on a
\* history of fewer than 2 points the velocity is 0.
C14_ShortHistoryNeutral ==
    probe.pc = "analysed" =>
        /\ Len(probe.data) < 3 => (probe.direction = 0 /\ probe.multiplier = One)
        /\ Len(probe.data) < 2 => (probe.velocity.kind = "num" /\ probe.velocity.n = 0)

\* C14: a 2-point history whose velocity exceeds 2 has been analysed with
\* multiplier 1.0.
C14_TwoPointsHighVelocity ==
    /\ probe.pc = "analysed"
    /\ Len(probe.data) = 2
    /\ probe.velocity.kind = "num"
    /\ Abs(probe.velocity.n) > 2 * probe.velocity.d
    /\ probe.direction = 0
    /\ probe.multiplier = One

\* C18: after getTrendMultiplier on a stored history of at least 2 points
\* whose oldest value is 0, the velocity is 0 and the multiplier is the
\* unamplified one of the direction (1.3, 1.0 or 0.7).
C18_ZeroOldestVelocityZero ==
    (probe.pc = "analysed" /\ Len(probe.data) >= 2 /\ probe.data[Len(probe.data)] = 0)
        => /\ probe.velocity.kind = "num"
           /\ probe.velocity.n = 0
           /\ probe.multiplier = directionMultipliers(probe.direction)

Output == <<currentProbabilities, updateFactors, trendMultipliers>>

\* the output of a call on the snapshot whose trend analysis ran and gave no
\* multiplier (every history fetch failed, no history stored)
NeutralOutput(indicators) ==
    LET r == Evaluate(indicators, EmptyFactors,
                      [event \in EventSet |-> BASE_PROBABILITIES[event]],
                      useTrendAnalysis, NoMultipliers)
    IN  <<r.probabilities, r.factors, NoMultipliers>>

OwnMultipliers(c) ==
    [id \in {k \in DOMAIN cycles[c].settled : cycles[c].settled[k].ok} |->
        getTrendMultiplier(OwnHistory(c, id), id, id \in invertedIndicators)]

\* the probabilities of a snapshot and multipliers, computed from the priors
FromPriors(indicators, useTrend, multipliers) ==
    Evaluate(indicators, EmptyFactors, [event \in EventSet |-> BASE_PROBABILITIES[event]],
             useTrend, multipliers).probabilities

\* C20: when a call returns, with no other call in flight during it, its
\* probabilities are those computed from the base priors, its snapshot and
\* the histories its own fetches returned (none when trend analysis is off or
\* failed), whatever calls ran before.
C20_FunctionOfCycleInputs ==
    [][/\ \A c \in Slots :
             ResumeStep(c) =>
                 currentProbabilities' =
                     FromPriors(cycles[c].indicators, useTrendAnalysis,
                                IF cycles[c].pc = "rejected" THEN NoMultipliers
                                ELSE OwnMultipliers(c))
       /\ SyncStep =>
             currentProbabilities' = FromPriors(last'.indicators, FALSE, NoMultipliers)]_vars

\* the phases a call may pass through, one after the other: Idle to
\* Analyzing-Trends ("fetching", or "rejected" when the analysis throws at
\* once), the analysis completed ("analyzed") or failed ("rejected"), then
\* thresholds, aggregation and Done in the step that returns to "idle"
PhaseOrder ==
    {<<"idle", "fetching">>, <<"idle", "rejected">>, <<"fetching", "analyzed">>,
     <<"analyzed", "idle">>, <<"rejected", "idle">>}

\* C11: a call passes through its phases in order; while its trend analysis
\* is running no factor is collected and no probability computed; when it
\* returns, the probabilities are aggregated from the five factor lists its
\* rules have just filled; and with every fetch settling, a call in flight
\* eventually returns.
C11_PhasesInOrder ==
    /\ [][/\ \A c \in Slots :
               /\ cycles'[c].pc # cycles[c].pc
                     => <<cycles[c].pc, cycles'[c].pc>> \in PhaseOrder
               /\ cycles[c].pc = "fetching"
                     => /\ updateFactors' = updateFactors
                        /\ currentProbabilities' = currentProbabilities
          /\ Aggregated =>
               /\ updateFactors' = CalculateFactors(last'.indicators, EmptyFactors,
                                                    useTrendAnalysis, trendMultipliers')
               /\ currentProbabilities' =
                     calculateAllProbabilities(updateFactors', currentProbabilities)]_vars
    /\ \A c \in Slots : InFlight(c) ~> ~InFlight(c)

\* a call whose trend analysis completed with multipliers has reached Done,
\* after another call
C11_SecondCycleDone ==
    /\ NoneInFlight
    /\ started = MaxCycles
    /\ last.trend = "analyzed"
    /\ trendMultipliers # NoMultipliers
    /\ Len(updateFactors.recession) = 3

\* the indicators a rule reads, by the rule's reason
RuleInputs(reason) ==
    CASE reason = "Extreme QE conditions" -> {"BOGMBASE", "M2SL"}
      [] reason = "Rising long-term rates" -> {"DGS10", "DFF"}
      [] OTHER -> {RuleIndicator(reason)}

\* the rules that compare one indicator with their threshold
SingleRules ==
    LET t == ECONOMIC_THRESHOLDS
    IN  {[event |-> "recession", rule |-> t.recession.deficitGDP, id |-> "DeficitGDP", operator |-> ">"],
         [event |-> "recession", rule |-> t.recession.creditSpreads, id |-> "BAA10Y", operator |-> ">"],
         [event |-> "recession", rule |-> t.recession.yieldCurve, id |-> "T10Y2Y", operator |-> "<"],
         [event |-> "depression", rule |-> t.depression.fedFunds, id |-> "DFF", operator |-> "<"],
         [event |-> "depression", rule |-> t.depression.debtGDP, id |-> "GFDGDPA188S", operator |-> ">"],
         [event |-> "reserve", rule |-> t.reserve.dxy, id |-> "DXY", operator |-> "<"],
         [event |-> "default", rule |-> t.default.deficitGDP, id |-> "DeficitGDP", operator |-> ">"],
         [event |-> "default", rule |-> t.default.interestPayments, id |-> "A091RC1Q027SBEA", operator |-> ">"],
         [event |-> "devaluation", rule |-> t.devaluation.dxy, id |-> "DXY", operator |-> "<"],
         [event |-> "devaluation", rule |-> t.devaluation.deficitGDP, id |-> "DeficitGDP", operator |-> ">"]}

Reasons(list) == {list[i].reason : i \in 1..Len(list)}

\* the call that returned last evaluated its rules on a snapshot object
RulesApplied == last.trend = "off" /\ ~last.indicators.isNull

\* C16: after a call, no factor comes from a rule one of whose indicators is
\* absent from the snapshot (composite rules included), no error has replaced
\* the aggregation by the priors, and every one-indicator rule whose
\* indicator is a number beyond its threshold has its factor in the list.
C16_AbsentIndicatorSkipped ==
    RulesApplied =>
        /\ \A event \in EventSet :
              \A reason \in Reasons(updateFactors[event]) :
                 RuleInputs(reason) \subseteq DOMAIN last.indicators.e
        /\ currentProbabilities = calculateAllProbabilities(updateFactors, currentProbabilities)
        /\ \A r \in SingleRules :
              (/\ r.id \in DOMAIN last.indicators.e
               /\ last.indicators.e[r.id].kind = "num"
               /\ checkThreshold(RawOf(last.indicators, r.id), r.rule.value, r.operator))
                  => r.rule.reason \in Reasons(updateFactors[r.event])

\* the fed-funds rate is absent and the 10-year rate present: the fed-funds
\* rule and the rate-spread rule gave nothing, the other rules their factors
C16_CompositeSkippedOthersKept ==
    /\ RulesApplied
    /\ "DFF" \notin DOMAIN last.indicators.e
    /\ "DGS10" \in DOMAIN last.indicators.e
    /\ last.indicators.e["DGS10"] = Num(45)
    /\ Reasons(updateFactors.default) = {"Deficit > 7% GDP"}
    /\ Reasons(updateFactors.depression) = {"Extreme QE conditions"}
    /\ Len(updateFactors.recession) = 2

\* a raw value that is no finite number
Malformed(entry) == entry.kind \in {"nan", "inf", "bad", "text"}

\* the operators of checkThreshold, and one it does not know
Operators == {">", "<", ">=", "<=", "==", "!="}

RuleThresholds ==
    UNION {{ECONOMIC_THRESHOLDS[event][k].value : k \in DOMAIN ECONOMIC_THRESHOLDS[event]} :
              event \in EventSet}

\* C17: after a call, checkThreshold is false for every malformed raw value
\* of the snapshot under every operator and rule threshold, no factor comes
\* from a rule (composite rules included) that reads a malformed value, and
\* no error has replaced the aggregation by the priors.
C17_MalformedNeverSatisfies ==
    RulesApplied =>
        /\ \A id \in DOMAIN last.indicators.e :
              Malformed(last.indicators.e[id]) =>
                  \A operator \in Operators, threshold \in RuleThresholds :
                      ~checkThreshold(RawOf(last.indicators, id), threshold, operator)
        /\ \A event \in EventSet :
              \A reason \in Reasons(updateFactors[event]) :
                  \A id \in RuleInputs(reason) \cap DOMAIN last.indicators.e :
                      ~Malformed(last.indicators.e[id])
        /\ currentProbabilities = calculateAllProbabilities(updateFactors, currentProbabilities)

\* the {factor, reason} pairs of a list
FactorsAndReasons(list) ==
    [i \in 1..Len(list) |-> [factor |-> list[i].factor, reason |-> list[i].reason]]

\* C21: a call made while trend analysis is switched off issues no history
\* fetch, and its probabilities and the factor and reason of every entry of
\* its five lists are those of the calculator without trend analysis on the
\* same snapshot, whatever multipliers are stored.
C21_DisabledIsThresholdOnly ==
    [][(started' # started /\ ~useTrendAnalysis) =>
          /\ cycles' = cycles
          /\ LET pure == updateProbabilitiesThresholdOnly(last'.indicators)
             IN  /\ currentProbabilities' = pure.probabilities
                 /\ \A event \in EventSet :
                       FactorsAndReasons(updateFactors'[event])
                           = FactorsAndReasons(pure.factors[event])]_vars

\* a call with trend analysis switched off has returned with recession
\* factors while a multiplier other than 1 of an earlier call is stored for
\* the indicator of one of them
C21_StoredMultipliersIgnored ==
    /\ last.trend = "off"
    /\ NoneInFlight
    /\ "DeficitGDP" \in DOMAIN trendMultipliers
    /\ trendMultipliers["DeficitGDP"] # One
    /\ Len(updateFactors.recession) >= 2
    /\ updateFactors.recession[1].reason = "Deficit > 5% GDP"

\* the label stated for a probability: the highest of critical, high and
\* moderate whose configured threshold it reaches, "low" when it reaches none
StatedLevel(probability, thresholds) ==
    LET reached == {l \in {"critical", "high", "moderate"} : Geq(probability, thresholds[l])}
    IN  IF "critical" \in reached THEN "critical"
        ELSE IF "high" \in reached THEN "high"
        ELSE IF "moderate" \in reached THEN "moderate"
        ELSE "low"

\* C22: in every state, getRiskLevel gives each event the stated label for
\* its current probability and the configured thresholds, and
\* getCriticalEvents gives exactly the events labelled critical.
C22_RiskLevelByThresholds ==
    /\ \A event \in EventSet :
          getRiskLevel(currentProbabilities, event)
              = StatedLevel(currentProbabilities[event], RISK_THRESHOLDS[event])
    /\ getCriticalEvents(currentProbabilities)
          = {event \in EventSet : getRiskLevel(currentProbabilities, event) = "critical"}

\* after a call, recession is critical while the probability of devaluation
\* is exactly its moderate threshold, and is labelled moderate
C22_CriticalAndExactlyModerate ==
    /\ last.trend = "analyzed"
    /\ getCriticalEvents(currentProbabilities) = {"recession"}
    /\ currentProbabilities.devaluation = RISK_THRESHOLDS.devaluation.moderate
    /\ getRiskLevel(currentProbabilities, "devaluation") = "moderate"

ReasonsInOrder(list) == [i \in 1..Len(list) |-> list[i].reason]

\* the place of a rule among the rules declared for its event, 0 for a reason
\* that is none of them
Position(event, reason) ==
    LET places == {i \in 1..Len(RuleOrder[event]) :
                      ECONOMIC_THRESHOLDS[event][RuleOrder[event][i]].reason = reason}
    IN  IF places = {} THEN 0 ELSE CHOOSE i \in places : TRUE

\* a call has returned with its rules evaluated and no other call is running
SingleCycleDone == NoneInFlight /\ last.trend # "none" /\ ~last.indicators.isNull

\* C23: after a call that ran alone, every event's list names declared rules
\* of that event in strictly increasing declaration order (so none twice),
\* holds every one-indicator rule whose indicator is a number beyond its
\* threshold, and names the rules the snapshot alone determines, whatever
\* calls ran before and whatever the trends.
C23_FactorsInDeclarationOrder ==
    SingleCycleDone =>
        /\ \A event \in EventSet :
              LET list == updateFactors[event]
              IN  /\ \A i \in 1..Len(list) : Position(event, list[i].reason) > 0
                  /\ \A i, j \in 1..Len(list) :
                        i < j => Position(event, list[i].reason) < Position(event, list[j].reason)
                  /\ ReasonsInOrder(list)
                        = ReasonsInOrder(CalculateFactors(last.indicators, EmptyFactors,
                                                          FALSE, NoMultipliers)[event])
        /\ \A r \in SingleRules :
              (/\ Present(last.indicators, r.id)
               /\ checkThreshold(RawOf(last.indicators, r.id), r.rule.value, r.operator))
                  => r.rule.reason \in Reasons(updateFactors[r.event])

\* after the second call three recession rules and both devaluation rules
\* are listed, in declaration order
C23_StressListsInOrder ==
    /\ SingleCycleDone
    /\ started = MaxCycles
    /\ ReasonsInOrder(updateFactors.recession)
          = <<"Deficit > 5% GDP", "Credit spreads > 400bps", "Yield curve inverted">>
    /\ ReasonsInOrder(updateFactors.devaluation)
          = <<"DXY < 100", "High deficit monetization risk">>

\* C24: whenever fetchAllData has returned, also while another call of it
\* was running, the snapshot it returned holds every series of MOCK_DATA,
\* DeficitGDP and DXY, and DXY is 120 - 20 x DEXUSEU.raw of that snapshot.
C24_SnapshotComplete ==
    probe.returned.done =>
        LET snapshot == probe.returned.snapshot
        IN  /\ DOMAIN MOCK_DATA \subseteq DOMAIN snapshot
            /\ "DeficitGDP" \in DOMAIN snapshot
            /\ "DXY" \in DOMAIN snapshot
            /\ snapshot["DXY"].raw = 12000 - 20 * snapshot["DEXUSEU"].raw

\* every series of MOCK_DATA was stored from the backend and the deficit
\* ratio from the Treasury endpoint
AllLive(indicators) ==
    /\ \A id \in DOMAIN MOCK_DATA :
          id \in DOMAIN indicators /\ indicators[id].source = "FRED API"
    /\ "DeficitGDP" \in DOMAIN indicators
    /\ indicators["DeficitGDP"] = TreasuryDeficit

\* C28: when fetchAllData has returned a snapshot of which every indicator
\* was obtained live while the backend is connected, getConnectionStatus
\* reports liveCount = totalCount = 13 and isFullyLive; and it never reports
\* isFullyLive together with isPartialLive.
C28_FullyLiveReported ==
    probe.returned.done =>
        LET status == getConnectionStatus(probe.returned.snapshot, probe.useBackend)
        IN  /\ (probe.useBackend /\ AllLive(probe.returned.snapshot)) =>
                  /\ status.liveCount = 13
                  /\ status.totalCount = 13
                  /\ status.isFullyLive
            /\ ~(status.isFullyLive /\ status.isPartialLive)

\* C30: after every completed checkBackendConnection, whatever the outcomes
\* of this and of the earlier checks, the boolean it returned equals the
\* useBackend flag.
C30_ResultEqualsFlag ==
    (probe.checked.done /\ probe.health = "idle") =>
        probe.checked.result = probe.useBackend

\* C25: any two executions of the function given to throttle are at least
\* delay apart, and the calls made inside the window leave at most one
\* execution pending.
C25_ExecutionsDelayApart ==
    /\ \A i, j \in DOMAIN probe.execs :
          i < j => probe.execs[j] - probe.execs[i] >= ThrottleDelay
    /\ Cardinality(probe.timers) <= 1

\* the call of fetchWithRetry has returned or thrown
RetryOver == probe.at \in {"returned", "thrown"}

\* the delay of the k-th wait of the backoff, in milliseconds
Backoff(k) == 1000 * Pow2(k - 1)

\* at most maxRetries requests, one per failure plus the successful one; the
\* call returns the response of the first success and throws the last error
\* when maxRetries attempts have failed
RetryAttempts ==
    /\ probe.requests <= probe.maxRetries
    /\ probe.maxRetries <= MAX_RETRIES
    /\ probe.at = "returned" =>
          /\ probe.outcome.kind = "response"
          /\ probe.requests = Len(probe.failures) + 1
    /\ probe.at = "thrown" =>
          /\ probe.requests = probe.maxRetries
          /\ Len(probe.failures) = probe.maxRetries
          /\ probe.outcome.error = probe.failures[probe.maxRetries]
    /\ probe.at = "request" => probe.requests = Len(probe.failures)
    /\ Len(probe.failures) = probe.maxRetries => probe.at = "thrown"

ValidatedFor(key, value) ==
    /\ value.kind = (IF key = DeficitKey THEN "deficit" ELSE "fred")
    /\ validateFREDResponse(value.body)

\* the entry of a response, if served from the cache, is a validated value
\* not older than CACHE_DURATION_MS
ServedFresh(key, entry) ==
    (entry.present /\ entry.cached) =>
        /\ ~entry.error
        /\ ValidatedFor(key, entry.value)
        /\ entry.age >= 0
        /\ entry.age <= CACHE_DURATION_MS

Asking(series, key) == {i \in DOMAIN series : series[i] = key}

\* C29: the response of POST /api/fred/batch to a series array has status
\* 200 and exactly one entry per requested series, a data object or an
\* error object; a series none of whose fetches failed has its data
\* whatever happened to the others, a series whose fetches all failed has an
\* error object; successful + failed is the number of entries, and
\* cacheHits + cacheMisses the number of series requested.
C29_BatchOneEntryPerSeries ==
    (probe.pc = "proxy" /\ probe.response.endpoint = "batch"
        /\ probe.response.status # 400) =>
        LET response == probe.response
            entries == response.entries
            asked == {key \in CacheKeys : Asking(response.series, key) # {}}
        IN  /\ response.status = 200
            /\ {key \in CacheKeys : entries[key].present} = asked
            /\ \A key \in asked :
                  /\ entries[key].error => entries[key].value = ErrorObject
                  /\ ~entries[key].error => ValidatedFor(key, entries[key].value)
                  /\ (\A i \in Asking(response.series, key) :
                         response.ended[i] \in {"hit", "fetched"}) => ~entries[key].error
                  /\ (\A i \in Asking(response.series, key) :
                         response.ended[i] = "failed") => entries[key].error
            /\ response.metadata.successful + response.metadata.failed = Cardinality(asked)
            /\ response.metadata.cacheHits + response.metadata.cacheMisses
                  = Len(response.series)
            /\ response.metadata.total = Len(response.series)

\* a batch for two series was answered with the cached data of one and the
\* error of the other
C29_HitBesideFailure ==
    /\ probe.pc = "proxy"
    /\ probe.response.endpoint = "batch"
    /\ probe.response.status = 200
    /\ Len(probe.response.series) = 2
    /\ probe.response.metadata.successful = 1
    /\ probe.response.metadata.failed = 1
    /\ probe.response.metadata.cacheHits = 1
    /\ probe.response.metadata.cacheMisses = 1

====
